---- MODULE Spec2Model ----
(***************************************************************************)
(* A model of the winboat runtime core: the native QEMU backend's process  *)
(* lifecycle (src/unnamed/part_004), the container engines' status         *)
(* mapping (docker.ts, podman.ts), the versioned configuration reader      *)
(* (src/unnamed/part_005) and the instance supervisor's polling loop       *)
(* (src/unnamed/part_003).  Each subsystem has its own specification over  *)
(* the shared variable list; the variables of the other subsystems stay    *)
(* at their initial values.                                                *)
(***************************************************************************)
EXTENDS Integers, Sequences, FiniteSets, TLC

VARIABLES
    \* ---- native backend (QemuNativeContainer) ----
    pidFile,      \* qemu.pid: [exists, content]; content <= 0 stands for text parseInt rejects
    alive,        \* PIDs of the live processes of the host
    nativePc,     \* position of the lifecycle call in progress
    stopPid,      \* the pid killPidWithGrace was called with
    elapsed,      \* Date.now() - start inside killPidWithGrace, in ms
    termSent,     \* SIGTERM was delivered by the stop call in progress / last finished
    killSent,     \* SIGKILL was delivered by the stop call in progress / last finished
    spawnCount,   \* number of spawn() calls made so far
    calls,        \* number of lifecycle calls invoked so far
    invoked,      \* the lifecycle call invoked most recently
    hist,         \* the completed lifecycle calls, most recent last: [op, result]
    nativePorts,  \* cachedPortMappings of the native backend was refreshed
    prereqs,      \* the prerequisites present on the host
    varsFile,     \* edk2-vars.fd exists in the runtime directory
    diskImage,    \* the qcow2 disk image exists
    startError,   \* what the error of the last rejected start() names
    \* ---- container engines (DockerContainer, PodmanContainer) ----
    engineKind,   \* "Docker" or "Podman"
    engineStdout, \* what `inspect --format={{.State.Status}}` prints now: [word, newline]
    inspectFails, \* the inspect command exits non-zero now (no such container, no daemon)
    statusInput,  \* the output the last getStatus() read: [stdout, failed]
    statusResult, \* what the last getStatus() returned
    enginePresent, \* the engine has a container of the configured name
    removeLog,    \* the remove() calls made on the engine backend: [present, result]
    \* ---- persisted configuration (WinboatConfig) ----
    cfgFile,      \* winboat.config.json: absent, text that is no JSON object, or an object
    cfgBackups,   \* contents of the winboat.config.corrupt.<time>.json files
    cfgInput,     \* the file as the last readConfigObject() found it
    cfgArg,       \* writeDefault of the last readConfigObject()
    cfgResult,    \* what the last readConfigObject() returned, and how
    cfgLog,       \* order of the file writes of the last readConfigObject()
    \* ---- supervisor (Winboat) ----
    runtimeStatus,        \* the status the instance really has
    runEpoch,             \* number of times the instance was brought up (its port bindings)
    containerStatus,      \* Winboat.containerStatus.value
    pollPc,               \* position of each in-flight tick of the polling interval
    pollArg,              \* the session a tick in destroyAPIIntervals is probing
    overlapped,           \* a tick of the polling interval began while another was in progress
    portCache,            \* cachedPortMappings: 0 = undefined, else the run it was read in
    runningTick,          \* the tick that observed the latest transition to RUNNING
    portRefreshed,        \* port() of that tick has completed
    experimentalFeatures, \* config.experimentalFeatures
    healthInterval,       \* #healthInterval is set
    qmpInterval,          \* #qmpInterval is set
    qmpPc,                \* each in-flight callback of the QMP interval: [at, arg]
    qmpMgr,               \* Winboat.qmpMgr: 0 = null, else the session it holds
    sockets,              \* socket of each session created: "open", "closed", "destroyed"
    qmpAttempt,           \* the latest connection attempt: [made, status, refreshed]
    \* ---- runtime capabilities (runtimes/capabilities, feature-flags) ----
    hostPlatform,  \* process.platform
    hostArch,      \* process.arch
    envCanonical,  \* process.env.WINBOAT_EXPERIMENTAL_MAC_NATIVE_RUNTIME
    envLegacy,     \* process.env.WINBOAT_EXPERIMENTAL_QEMU_NATIVE
    capResult,     \* what the last getRuntimeCapabilities() returned
    kindsResult,   \* what the last getSupportedRuntimeKinds() returned
    \* ---- port bindings (ContainerManager.port, getActiveHostPort) ----
    portBackend,  \* the backend the manager was created for
    portSource,  \* what port() reads: the lines the engine prints, or the descriptor's ports
    cachedPortMappings,  \* ContainerManager.cachedPortMappings: [set, entries]
    portQuery, \* the last getActiveHostPort(): [asked, cached, port, protocol, result]
    \* ---- control-channel handshake (Winboat.#connectQMPManager) ----
    hsMgr,  \* Winboat.qmpMgr in the handshake model: 0 = null, else the connection it holds
    hsPc,  \* each callback of the QMP interval: [at, conn]
    hsLog,  \* the commands sent on each connection, in order: [cmd, confirmed]
    hsConfirmed, \* the connections whose qmp_capabilities has returned a confirmation
    \* ---- configuration owner (WinboatConfig.config) ----
    configData,  \* WinboatConfig.configData: [scale, rdpArgs, versionData]
    configOnDisk,  \* what winboat.config.json holds, parsed
    lastMutation, \* the last mutation made through WinboatConfig.config
    \* ---- instance descriptor file (writeCompose, replaceCompose) ----
    descFile,  \* the file at composeFilePath: [kind, content]
    descBackups,  \* contents of the files in the backup directory
    descPc,  \* position of the descriptor write in progress, or where the program crashed
    descOp,  \* the write in progress or last made: [op, prev, new]
    descWrites, \* number of descriptor writes begun
    \* ---- guest server update (Winboat.checkVersionAndUpdateGuestServer) ----
    guest,  \* what the guest API does with a request now: answers, refuses, or stays silent
    guPc,  \* position of checkVersionAndUpdateGuestServer
    isUpdatingGuestServer,  \* Winboat.isUpdatingGuestServer.value
    guVersionSame,  \* version.version equals the app version
    guReportedArch,  \* version.guest_arch of the /version answer
    guConfiguredArch,  \* config.guestArch
    guZipExists, \* a guest server zip for the architecture exists
    \* ---- startup: WinboatConfig and Winboat constructors (part_005 450-479, part_003 282-300) ----
    startPc,  \* "init", "config" (WinboatConfig constructed), "ready" (Winboat constructed)
    wbConfigData,  \* WinboatConfig.configData
    containerMgr, \* the runtime kind the manager in use was created for
    \* ---- pause, unpause and status of the native backend (part_004 148-171, 213-220) ----
    stopped,  \* the PIDs whose process is stopped by SIGSTOP
    statusOp,  \* the last operation: "none", "pause", "unpause", "getStatus", "exit"
    statusSeen, \* what the last getStatus returned
    \* ---- two calls of the capability resolver (common.ts 164-215) ----
    resolveFirst,  \* the first call: its arguments and what it returned
    resolveSecond, \* the second call
    \* ---- the hypervisor process of the native backend: forwarding rules and control channel (part_004 271-329) ----
    hostFwd,  \* the hostfwd rules of the argument vector the hypervisor was started with
    qmpListen, \* the host port the hypervisor's control channel listens on; 0 before the start
    \* ---- container actions of the supervisor (part_003 520-614) ----
    actionName,  \* the method under way or last finished; "none" before the first
    actionPc,  \* "idle", "container", "stop", "down", "files", "up" (the await or step it is at), "returned", "threw"
    containerActionLoading,  \* containerActionLoading.value
    actionSawRunning,  \* containerStatus was RUNNING when replaceCompose looked
    actionCalls, \* the calls made so far
    \* ---- guest API intervals of the supervisor: isOnline and rdpConnected (part_003 325-442) ----
    instanceUp,  \* the instance is running
    guestUp,  \* the guest server answers
    observedRunning,  \* the supervisor's containerStatus is RUNNING
    healthTimer,  \* #healthInterval is set
    rdpTimer,  \* #rdpConnectionStatusInterval is set
    isOnline,  \* isOnline.value
    rdpConnected,  \* rdpConnected.value
    healthReq,  \* the /health request of a callback: "none", or what the guest was when it was sent, "up" or "down"
    rdpReq,  \* the /rdp/status request of a callback, likewise
    rdpMonitoringEnabled,  \* config.rdpMonitoringEnabled
    tornDown, \* destroyAPIIntervals has run and no RUNNING has been observed since
    \* ---- exists() of the backends after remove() (part_004 205-224, docker.ts 103-147) ----
    nativeCompose,  \* the native backend's descriptor file exists
    existsSeen, \* the last exists() call: the backend, whether it followed a successful remove() of an existing stopped instance, and what it returned
    \* ---- InstallManager.install (src/renderer/lib/install.ts 309-327) ----
    instPc,  \* where install() is: "idle", the step it is in, "done"
    instState,  \* InstallManager.state
    instEvents,  \* the states emitted with stateChanged, in order
    instHealthy,  \* GET /health has answered 200 in this run
    instAttempts,  \* the health requests made
    preinstallMsg  \* InstallManager.preinstallMsg

nvars == <<pidFile, alive, nativePc, stopPid, elapsed, termSent, killSent,
           spawnCount, calls, invoked, hist, nativePorts, prereqs, varsFile, diskImage,
           startError>>

svars == <<engineKind, engineStdout, inspectFails, statusInput, statusResult,
           enginePresent, removeLog>>

cvars == <<cfgFile, cfgBackups, cfgInput, cfgArg, cfgResult, cfgLog>>

wvars == <<runtimeStatus, runEpoch, containerStatus, pollPc, pollArg, overlapped, portCache,
           runningTick, portRefreshed, experimentalFeatures, healthInterval, qmpInterval,
           qmpPc, qmpMgr, sockets, qmpAttempt>>

kvars == <<hostPlatform, hostArch, envCanonical, envLegacy, capResult, kindsResult>>

pvars == <<portBackend, portSource, cachedPortMappings, portQuery>>

hvars == <<hsMgr, hsPc, hsLog, hsConfirmed>>

ovars == <<configData, configOnDisk, lastMutation>>

dvars == <<descFile, descBackups, descPc, descOp, descWrites>>

gvars == <<guest, guPc, isUpdatingGuestServer, guVersionSame, guReportedArch, guConfiguredArch, guZipExists>>

tvars == <<startPc, wbConfigData, containerMgr>>

uvars == <<stopped, statusOp, statusSeen>>

yvars == <<resolveFirst, resolveSecond>>

fvars == <<hostFwd, qmpListen>>

avars == <<actionName, actionPc, containerActionLoading, actionSawRunning, actionCalls>>

ivars == <<instanceUp, guestUp, observedRunning, healthTimer, rdpTimer, isOnline, rdpConnected, healthReq, rdpReq, rdpMonitoringEnabled, tornDown>>

xvars == <<nativeCompose, existsSeen>>

jvars == <<instPc, instState, instEvents, instHealthy, instAttempts, preinstallMsg>>

vars == <<nvars, svars, cvars, wvars, kvars, pvars, hvars, ovars, dvars, gvars, tvars, uvars, yvars, fvars, avars, ivars, xvars, jvars>>

\* what the actions of each subsystem leave alone
nonNative == <<svars, cvars, wvars, kvars, pvars, hvars, ovars, dvars, gvars, tvars, uvars, yvars, fvars, avars, ivars, xvars, jvars>>
nonStatus == <<nvars, cvars, wvars, kvars, pvars, hvars, ovars, dvars, gvars, tvars, uvars, yvars, fvars, avars, ivars, xvars, jvars>>
nonConfig == <<nvars, svars, wvars, kvars, pvars, hvars, ovars, dvars, gvars, tvars, uvars, yvars, fvars, avars, ivars, xvars, jvars>>
nonSupervisor == <<nvars, svars, cvars, kvars, pvars, hvars, ovars, dvars, gvars, tvars, uvars, yvars, fvars, avars, ivars, xvars, jvars>>
nonCapabilities == <<nvars, svars, cvars, wvars, pvars, hvars, ovars, dvars, gvars, tvars, uvars, yvars, fvars, avars, ivars, xvars, jvars>>
nonPorts == <<nvars, svars, cvars, wvars, kvars, hvars, ovars, dvars, gvars, tvars, uvars, yvars, fvars, avars, ivars, xvars, jvars>>
nonHandshake == <<nvars, svars, cvars, wvars, kvars, pvars, ovars, dvars, gvars, tvars, uvars, yvars, fvars, avars, ivars, xvars, jvars>>
nonOwner == <<nvars, svars, cvars, wvars, kvars, pvars, hvars, dvars, gvars, tvars, uvars, yvars, fvars, avars, ivars, xvars, jvars>>
nonDescriptor == <<nvars, svars, cvars, wvars, kvars, pvars, hvars, ovars, gvars, tvars, uvars, yvars, fvars, avars, ivars, xvars, jvars>>
nonGuest == <<nvars, svars, cvars, wvars, kvars, pvars, hvars, ovars, dvars, tvars, uvars, yvars, fvars, avars, ivars, xvars, jvars>>
nonStartup == <<nvars, svars, wvars, kvars, pvars, hvars, ovars, dvars, gvars, uvars, yvars, fvars, avars, ivars, xvars, jvars>>
nonPause == <<svars, cvars, wvars, kvars, pvars, hvars, ovars, dvars, gvars, tvars, yvars, fvars, avars, ivars, xvars, jvars>>
nonResolver == <<nvars, svars, cvars, wvars, pvars, hvars, ovars, dvars, gvars, tvars, uvars, fvars, avars, ivars, xvars, jvars>>
nonForward == <<nvars, svars, cvars, wvars, kvars, hvars, ovars, dvars, gvars, tvars, uvars, yvars, avars, ivars, xvars, jvars>>
nonAction == <<nvars, svars, cvars, wvars, kvars, pvars, hvars, ovars, dvars, gvars, tvars, uvars, yvars, fvars, ivars, xvars, jvars>>
nonIntervals == <<nvars, svars, cvars, wvars, kvars, pvars, hvars, ovars, dvars, gvars, tvars, uvars, yvars, fvars, avars, xvars, jvars>>
nonExists == <<cvars, wvars, kvars, pvars, hvars, ovars, dvars, gvars, tvars, uvars, yvars, fvars, avars, ivars, jvars>>
nonInstall == <<nvars, svars, cvars, wvars, kvars, pvars, hvars, ovars, dvars, gvars, tvars, uvars, yvars, fvars, avars, ivars, xvars>>

\* ------------------------------------------------------------------------
\* Bounds of the model
\* ------------------------------------------------------------------------
MaxPid == 2
MaxCalls == 3
MaxTicks == 2
MaxRuns == 1
MaxQmpTicks == 2
MaxSessions == 2

Pids == 1..MaxPid

\* ------------------------------------------------------------------------
\* Native backend: src/unnamed/part_004
\* ------------------------------------------------------------------------
GraceTimeoutMs == 5000
PollSleepMs == 100

NoPidFile == [exists |-> FALSE, content |-> 0]
PidFileOf(c) == [exists |-> TRUE, content |-> c]

\* #readPid: null (0 here; both are falsy for the callers' `!pid`) when the file is
\* absent or its content does not parse to a positive integer.
ReadPid ==
    IF ~pidFile.exists THEN 0
    ELSE IF pidFile.content <= 0 THEN 0
    ELSE pidFile.content

\* pidIsAlive: process.kill(pid, 0) succeeds
pidIsAlive(pid) == pid \in alive

\* getStatus with a PAUSED answer for a stopped process, which the code does not have
NativeGetStatusPaused ==
    IF ReadPid # 0 /\ pidIsAlive(ReadPid)
       THEN IF ReadPid \in stopped THEN "PAUSED" ELSE "RUNNING"
       ELSE "EXITED"

\* QemuNativeContainer.getStatus
NativeGetStatus ==
    IF ReadPid # 0 /\ pidIsAlive(ReadPid) THEN "RUNNING" ELSE "EXITED"

Last == IF Len(hist) = 0 THEN [op |-> "none", result |-> "none"] ELSE hist[Len(hist)]
Prev == IF Len(hist) < 2 THEN [op |-> "none", result |-> "none"] ELSE hist[Len(hist) - 1]

Finish(op, result) ==
    hist' = (IF Len(hist) < 2 THEN hist ELSE Tail(hist)) \o <<[op |-> op, result |-> result]>>

\* the `already running` test of #startVM (line 227)
AlreadyRunningMut == FALSE
AlreadyRunning == NativeGetStatus = "RUNNING"

\* what #startVM needs, in the order #resolveRuntimeState looks for it (lines 379-390)
Prerequisites == <<"qemu-system-aarch64", "qemu-img", "firmware code", "firmware vars">>
AllPrerequisites == {Prerequisites[n] : n \in DOMAIN Prerequisites}

\* #resolveRuntimeState returns instead of throwing
PrereqsMetMut == {"qemu-system-aarch64", "qemu-img"} \subseteq prereqs
PrereqsMet == AllPrerequisites \subseteq prereqs

\* the requirement the error of #resolveRuntimeState names: the first one not found
FirstMissing ==
    Prerequisites[CHOOSE n \in DOMAIN Prerequisites :
                     /\ Prerequisites[n] \notin prereqs
                     /\ \A m \in DOMAIN Prerequisites : m < n => Prerequisites[m] \in prereqs]

\* what the steps of the lifecycle calls leave alone on the host
hostFiles == <<prereqs, varsFile, diskImage, startError>>

\* #startVM, lines 227-230: the call and its short-circuit.  Past it the call awaits
\* the resolution of binaries, firmware and disk (lines 232-241).
StartCall ==
    /\ nativePc = "idle"
    /\ calls < MaxCalls
    /\ calls' = calls + 1
    /\ invoked' = "start"
    /\ IF AlreadyRunning
          THEN /\ Finish("start", "noop")
               /\ UNCHANGED nativePc
          ELSE /\ nativePc' = "start_prepare"
               /\ UNCHANGED hist
    /\ UNCHANGED <<pidFile, alive, stopPid, elapsed, termSent, killSent, spawnCount, nativePorts>>
    /\ UNCHANGED hostFiles
    /\ UNCHANGED nonNative

\* #startVM, line 237: #resolveRuntimeState throws, a prerequisite is missing and the
\* call rejects with the error naming it.
StartPrereqMissing ==
    /\ nativePc = "start_prepare"
    /\ ~PrereqsMet
    /\ nativePc' = "idle"
    /\ startError' = FirstMissing
    /\ Finish("start", "threw")
    /\ UNCHANGED <<pidFile, alive, stopPid, elapsed, termSent, killSent, spawnCount, calls, invoked, nativePorts>>
    /\ UNCHANGED <<prereqs, varsFile, diskImage>>
    /\ UNCHANGED nonNative

\* #startVM, lines 239-257: firmware variables and disk ensured, spawn detached, persist
\* the PID, refresh the port cache.  The host gives the child any PID no live process holds.
StartSpawn ==
    /\ nativePc = "start_prepare"
    /\ PrereqsMet
    /\ \E p \in Pids \ alive :
          /\ alive' = alive \cup {p}
          /\ pidFile' = PidFileOf(p)
    /\ varsFile' = TRUE
    /\ diskImage' = TRUE
    /\ spawnCount' = spawnCount + 1
    /\ nativePorts' = TRUE
    /\ nativePc' = "idle"
    /\ Finish("start", "spawned")
    /\ UNCHANGED <<stopPid, elapsed, termSent, killSent, calls, invoked, prereqs, startError>>
    /\ UNCHANGED nonNative

\* #startVM, lines 245-257 when the OS cannot start the child (EACCES, EAGAIN, EMFILE,
\* ENOENT): spawn() returns a child without pid and reports the error by an 'error'
\* event nothing listens to; String(child.pid) = "undefined" is written to the PID file
\* and the call resolves.
StartSpawnFails ==
    /\ nativePc = "start_prepare"
    /\ PrereqsMet
    /\ pidFile' = PidFileOf(0)
    /\ varsFile' = TRUE
    /\ diskImage' = TRUE
    /\ spawnCount' = spawnCount + 1
    /\ nativePorts' = TRUE
    /\ nativePc' = "idle"
    /\ Finish("start", "resolved_without_child")
    /\ UNCHANGED <<alive, stopPid, elapsed, termSent, killSent, calls, invoked, prereqs, startError>>
    /\ UNCHANGED nonNative

\* #startVM, line 245 when spawn() itself throws (any other OS error): the call rejects
\* with that error before line 256
StartSpawnThrows ==
    /\ nativePc = "start_prepare"
    /\ PrereqsMet
    /\ varsFile' = TRUE
    /\ diskImage' = TRUE
    /\ spawnCount' = spawnCount + 1
    /\ startError' = "spawn"
    /\ nativePc' = "idle"
    /\ Finish("start", "threw")
    /\ UNCHANGED <<pidFile, alive, stopPid, elapsed, termSent, killSent, calls, invoked, nativePorts, prereqs>>
    /\ UNCHANGED nonNative

\* #stopVM lines 261-264 and killPidWithGrace lines 67-73: read the PID, send SIGTERM;
\* op is "stop", or "remove" whose first step is #stopVM (line 206)
StopVM(op) ==
    /\ nativePc = "idle"
    /\ calls < MaxCalls
    /\ calls' = calls + 1
    /\ invoked' = op
    /\ IF ReadPid = 0
          THEN \* line 262: nothing to stop; remove() deletes whatever qemu.pid holds
               /\ Finish(op, "noop")
               /\ pidFile' = (IF op = "remove" THEN NoPidFile ELSE pidFile)
               /\ UNCHANGED <<nativePc, stopPid, elapsed, termSent, killSent>>
          ELSE IF ~pidIsAlive(ReadPid)
          THEN \* lines 69-71: process.kill throws, killPidWithGrace returns;
               \* lines 265-268 remove the PID file
               /\ pidFile' = NoPidFile
               /\ stopPid' = ReadPid
               /\ termSent' = FALSE
               /\ killSent' = FALSE
               /\ elapsed' = 0
               /\ Finish(op, "gone")
               /\ UNCHANGED nativePc
          ELSE /\ stopPid' = ReadPid
               /\ termSent' = TRUE
               /\ killSent' = FALSE
               /\ elapsed' = 0
               /\ nativePc' = "stop_wait"
               /\ UNCHANGED <<pidFile, hist>>
    /\ UNCHANGED <<alive, spawnCount, nativePorts>>
    /\ UNCHANGED hostFiles
    /\ UNCHANGED nonNative

StopCall == StopVM("stop")

\* QemuNativeContainer.remove: #stopVM, then qemu.pid is deleted if it is still there
RemoveCall == StopVM("remove")

\* killPidWithGrace lines 74-76: one turn of the wait loop
StopSleep ==
    /\ nativePc = "stop_wait"
    /\ pidIsAlive(stopPid) /\ elapsed < GraceTimeoutMs
    /\ elapsed' = elapsed + PollSleepMs
    /\ UNCHANGED <<pidFile, alive, nativePc, stopPid, termSent, killSent, spawnCount, calls, invoked, hist, nativePorts>>
    /\ UNCHANGED hostFiles
    /\ UNCHANGED nonNative

\* killPidWithGrace line 74 leaving the loop and line 78 testing liveness again
StopLoopExit ==
    /\ nativePc = "stop_wait"
    /\ ~(pidIsAlive(stopPid) /\ elapsed < GraceTimeoutMs)
    /\ IF pidIsAlive(stopPid)
          THEN /\ nativePc' = "stop_kill"
               /\ UNCHANGED <<pidFile, hist>>
          ELSE \* the process exited on SIGTERM; lines 265-268 remove the PID file
               /\ nativePc' = "idle"
               /\ pidFile' = NoPidFile
               /\ Finish(invoked, "graceful")
    /\ UNCHANGED <<alive, stopPid, elapsed, termSent, killSent, spawnCount, calls, invoked, nativePorts>>
    /\ UNCHANGED hostFiles
    /\ UNCHANGED nonNative

\* killPidWithGrace line 79: process.kill(pid, "SIGKILL").  It is not guarded: when the
\* process is gone by now it throws, #stopVM rejects and lines 265-268 never run.
StopKill ==
    /\ nativePc = "stop_kill"
    /\ nativePc' = "idle"
    /\ IF pidIsAlive(stopPid)
          THEN /\ alive' = alive \ {stopPid}
               /\ killSent' = TRUE
               /\ pidFile' = NoPidFile
               /\ Finish(invoked, "forced")
          ELSE /\ Finish(invoked, "kill_threw")
               /\ UNCHANGED <<alive, killSent, pidFile>>
    /\ UNCHANGED <<stopPid, elapsed, termSent, spawnCount, calls, invoked, nativePorts>>
    /\ UNCHANGED hostFiles
    /\ UNCHANGED nonNative

\* The host: a live process exits on its own (it crashed, it finished its shutdown
\* after SIGTERM, the user killed it).
ProcExits ==
    /\ \E p \in alive : alive' = alive \ {p}
    /\ UNCHANGED <<pidFile, nativePc, stopPid, elapsed, termSent, killSent, spawnCount, calls, invoked, hist, nativePorts>>
    /\ UNCHANGED hostFiles
    /\ UNCHANGED nonNative

\* ------------------------------------------------------------------------
\* Container engines: docker.ts and podman.ts, getStatus
\* ------------------------------------------------------------------------
RuntimeStatuses == {"CREATED", "RUNNING", "PAUSED", "EXITED", "UNKNOWN"}

\* statusMap of DockerContainer.getStatus (lines 115-123)
DockerStatusKeys == {"created", "restarting", "removing", "running", "paused", "exited", "dead"}
DockerStatusMap(key) ==
    CASE key = "created" -> "CREATED"
      [] key = "restarting" -> "UNKNOWN"
      [] key = "removing" -> "UNKNOWN"
      [] key = "running" -> "RUNNING"
      [] key = "paused" -> "PAUSED"
      [] key = "exited" -> "EXITED"
      [] key = "dead" -> "UNKNOWN"

\* statusMap of PodmanContainer.getStatus (lines 139-150)
PodmanStatusKeys == {"created", "restarting", "initialized", "removing", "stopping", "stopped",
                     "running", "paused", "exited", "dead"}
PodmanStatusMap(key) ==
    CASE key = "created" -> "CREATED"
      [] key = "restarting" -> "UNKNOWN"
      [] key = "initialized" -> "UNKNOWN"
      [] key = "removing" -> "UNKNOWN"
      [] key = "stopping" -> "EXITED"
      [] key = "stopped" -> "EXITED"
      [] key = "running" -> "RUNNING"
      [] key = "paused" -> "PAUSED"
      [] key = "exited" -> "EXITED"
      [] key = "dead" -> "UNKNOWN"

StatusKeys(kind) == IF kind = "Docker" THEN DockerStatusKeys ELSE PodmanStatusKeys

\* statusMap[status]: the property lookup of a plain object gives undefined for a
\* string that is no key of it
StatusLookup(kind, key) ==
    IF key \in StatusKeys(kind)
       THEN (IF kind = "Docker" THEN DockerStatusMap(key) ELSE PodmanStatusMap(key))
       ELSE "undefined"

\* The status words `inspect --format={{.State.Status}}` prints: Docker's container
\* states are the keys of its map; Podman's container states include "unknown".
EngineWords(kind) ==
    IF kind = "Docker" THEN DockerStatusKeys
    ELSE {"created", "initialized", "running", "stopped", "paused", "exited", "removing",
          "stopping", "unknown"}
Stdouts(kind) == [word : EngineWords(kind), newline : BOOLEAN]

\* stdout.trim()
Trim(out) == out.word

\* DockerContainer.getStatus / PodmanContainer.getStatus: the catch returns UNKNOWN
\* when the inspect command fails
EngineGetStatus(kind, out, failed) ==
    IF failed THEN "UNKNOWN" ELSE StatusLookup(kind, Trim(out))

\* the engine moves the container to another state
EngineMoves ==
    /\ engineStdout' \in Stdouts(engineKind)
    /\ inspectFails' \in BOOLEAN
    /\ UNCHANGED <<engineKind, statusInput, statusResult, enginePresent, removeLog>>
    /\ UNCHANGED nonStatus

GetStatusCall ==
    /\ statusInput' = [stdout |-> engineStdout, failed |-> inspectFails]
    /\ statusResult' = EngineGetStatus(engineKind, engineStdout, inspectFails)
    /\ UNCHANGED <<engineKind, engineStdout, inspectFails, enginePresent, removeLog>>
    /\ UNCHANGED nonStatus

\* DockerContainer.remove / PodmanContainer.remove: the catch logs the failure of the
\* rm command and the call returns
EngineRemoveResultMut(rmFailed) == IF rmFailed THEN "threw" ELSE "returned"
EngineRemoveResult(rmFailed) == "returned"

\* `rm <name>` fails when there is no such container, and can fail when there is one
\* (it is running, the daemon is down)
EngineRemove ==
    /\ Len(removeLog) < MaxCalls
    /\ \E rmFailed \in (IF enginePresent THEN BOOLEAN ELSE {TRUE}) :
          /\ removeLog' = Append(removeLog, [present |-> enginePresent,
                                              result |-> EngineRemoveResult(rmFailed)])
          /\ enginePresent' = (enginePresent /\ rmFailed)
    /\ UNCHANGED <<engineKind, engineStdout, inspectFails, statusInput, statusResult>>
    /\ UNCHANGED nonStatus

\* ------------------------------------------------------------------------
\* Persisted configuration: src/unnamed/part_005
\* ------------------------------------------------------------------------
\* JSON values.  "frac" is a number that is no integer, "vd" an object {previous, current}
\* of version tokens (s, c), "ver" the same with WinboatVersion instances in memory.
Val(t, n, x, c) == [t |-> t, n |-> n, s |-> x, c |-> c]
Num(n) == Val("num", n, "", "")
Frac(n) == Val("frac", n, "", "")
Str(x) == Val("str", 0, x, "")
Null == Val("null", 0, "", "")
Undefined == Val("undefined", 0, "", "")
VersionJson(p, c) == Val("vd", 0, p, c)
VersionObj(p, c) == Val("ver", 0, p, c)

Has(obj, key) == key \in DOMAIN obj
Get(obj, key) == IF Has(obj, key) THEN obj[key] ELSE Undefined
Set(obj, key, v) == [k \in DOMAIN obj \cup {key} |-> IF k = key THEN v ELSE obj[k]]
Delete(obj, keys) == [k \in DOMAIN obj \ keys |-> obj[k]]
\* { ...a, ...b }
Spread(a, b) == [k \in DOMAIN a \cup DOMAIN b |-> IF k \in DOMAIN b THEN b[k] ELSE a[k]]

CONFIG_SCHEMA_VERSION == 2

DOCKER == "Docker"
PODMAN == "Podman"
QEMU_NATIVE == "QemuNative"

\* the version of the running build (import.meta.env.VITE_APP_VERSION)
CurrentToken == "0.9.0"

\* new WinboatVersion(token) does not throw
ValidVersionToken(token) == token \in {"0.8.0", "0.9.0"}

\* value.trim().toLowerCase(), on the runtime strings of the model
TrimLower(x) ==
    CASE x = "Docker" -> "docker"
      [] x = "Podman" -> "podman"
      [] x = " PODMAN " -> "podman"
      [] x = "podman" -> "podman"
      [] x = "QEMU-Native" -> "qemu-native"
      [] x = "QemuNative" -> "qemunative"
      [] OTHER -> x

getPreferredGuestArchitecture(type) == IF type = QEMU_NATIVE THEN "arm64" ELSE "amd64"

normalizeRuntimeKind(value, fallback) ==
    IF value.t # "str" THEN fallback
    ELSE LET token == TrimLower(value.s)
         IN CASE token = "docker" -> DOCKER
              [] token = "podman" -> PODMAN
              [] token \in {"qemu-native", "qemu_native", "qemunative"} -> QEMU_NATIVE
              [] OTHER -> fallback

normalizeGuestArchitecture(value, runtime) ==
    IF value = Str("amd64") \/ value = Str("arm64") THEN value.s
    ELSE getPreferredGuestArchitecture(runtime)

normalizeVersionToken(token, fallback) ==
    IF ValidVersionToken(token) THEN token ELSE fallback

normalizeVersionData(value) ==
    IF value.t \notin {"vd", "ver"} THEN VersionObj(CurrentToken, CurrentToken)
    ELSE VersionObj(normalizeVersionToken(value.s, CurrentToken),
                    normalizeVersionToken(value.c, CurrentToken))

createDefaultConfig ==
    [k \in {"scale", "containerRuntime", "guestArch", "schemaVersion", "versionData"} |->
        CASE k = "scale" -> Num(100)
          [] k = "containerRuntime" -> Str(DOCKER)
          [] k = "guestArch" -> Str(getPreferredGuestArchitecture(DOCKER))
          [] k = "schemaVersion" -> Num(CONFIG_SCHEMA_VERSION)
          [] k = "versionData" -> VersionObj(CurrentToken, CurrentToken)]

configKeys == DOMAIN createDefaultConfig

LEGACY_RUNTIME_KEYS == <<"runtime", "container", "containerType">>
LegacyKeySet == {LEGACY_RUNTIME_KEYS[i] : i \in 1..Len(LEGACY_RUNTIME_KEYS)}

\* an inference that takes every explicit number, negative ones too
inferSchemaVersionAnyNumber(obj) ==
    LET explicitVersion == Get(obj, "schemaVersion")
    IN IF explicitVersion.t = "num" THEN explicitVersion.n
       ELSE IF Has(obj, "guestArch") THEN 1
       ELSE 0

inferSchemaVersion(obj) ==
    LET explicitVersion == Get(obj, "schemaVersion")
    IN IF explicitVersion.t = "num" /\ explicitVersion.n >= 0 THEN explicitVersion.n
       ELSE IF Has(obj, "guestArch") THEN 1
       ELSE 0

\* LEGACY_RUNTIME_KEYS.map(key => configObj[key]).find(value => value !== undefined)
FirstLegacyValue(obj) ==
    LET present == {i \in 1..Len(LEGACY_RUNTIME_KEYS) : Has(obj, LEGACY_RUNTIME_KEYS[i])}
    IN IF present = {} THEN Undefined
       ELSE obj[LEGACY_RUNTIME_KEYS[CHOOSE i \in present : \A j \in present : i <= j]]

migrateConfigV0ToV1Mut(obj) ==
    LET withRuntime == Set(obj, "containerRuntime",
                           Str(normalizeRuntimeKind(Get(obj, "containerRuntime"), DOCKER)))
    IN Set(Delete(withRuntime, LegacyKeySet), "schemaVersion", Num(1))

\* a 0 -> 1 step that stamps the target version at once, so that the chain leaves out 1 -> 2
migrateConfigV0ToV1Skip(obj) ==
    LET own == Get(obj, "containerRuntime")
        runtimeValue == IF own.t \in {"undefined", "null"} THEN FirstLegacyValue(obj) ELSE own
        withRuntime == Set(obj, "containerRuntime", Str(normalizeRuntimeKind(runtimeValue, DOCKER)))
    IN Set(Delete(withRuntime, LegacyKeySet), "schemaVersion", Num(CONFIG_SCHEMA_VERSION))

migrateConfigV0ToV1(obj) ==
    LET own == Get(obj, "containerRuntime")
        runtimeValue == IF own.t \in {"undefined", "null"} THEN FirstLegacyValue(obj) ELSE own
        withRuntime == Set(obj, "containerRuntime", Str(normalizeRuntimeKind(runtimeValue, DOCKER)))
    IN Set(Delete(withRuntime, LegacyKeySet), "schemaVersion", Num(1))

migrateConfigV1ToV2(obj) ==
    LET runtime == normalizeRuntimeKind(Get(obj, "containerRuntime"), DOCKER)
        withRuntime == Set(obj, "containerRuntime", Str(runtime))
        withArch == Set(withRuntime, "guestArch",
                        Str(normalizeGuestArchitecture(Get(obj, "guestArch"), runtime)))
    IN Set(withArch, "schemaVersion", Num(2))

normalizeConfigObjectMut(obj, schemaVersion) ==
    LET defaults == createDefaultConfig
        runtime == normalizeRuntimeKind(Get(obj, "containerRuntime"), defaults["containerRuntime"].s)
        fixed == [k \in {"containerRuntime", "guestArch", "schemaVersion", "versionData"} |->
                    CASE k = "containerRuntime" -> Str(runtime)
                      [] k = "guestArch" -> Str(normalizeGuestArchitecture(Get(obj, "guestArch"), runtime))
                      [] k = "schemaVersion" -> Num(CONFIG_SCHEMA_VERSION)
                      [] k = "versionData" -> normalizeVersionData(Get(obj, "versionData"))]
    IN Spread(Spread(defaults, obj), fixed)

normalizeConfigObjectStrip(obj, schemaVersion) ==
    LET defaults == createDefaultConfig
        runtime == normalizeRuntimeKind(Get(obj, "containerRuntime"), defaults["containerRuntime"].s)
        known == [k \in DOMAIN obj \cap DOMAIN defaults |-> obj[k]]
        fixed == [k \in {"containerRuntime", "guestArch", "schemaVersion", "versionData"} |->
                    CASE k = "containerRuntime" -> Str(runtime)
                      [] k = "guestArch" -> Str(normalizeGuestArchitecture(Get(obj, "guestArch"), runtime))
                      [] k = "schemaVersion" -> Num(schemaVersion)
                      [] k = "versionData" -> normalizeVersionData(Get(obj, "versionData"))]
    IN Spread(Spread(defaults, known), fixed)

normalizeConfigObject(obj, schemaVersion) ==
    LET defaults == createDefaultConfig
        runtime == normalizeRuntimeKind(Get(obj, "containerRuntime"), defaults["containerRuntime"].s)
        fixed == [k \in {"containerRuntime", "guestArch", "schemaVersion", "versionData"} |->
                    CASE k = "containerRuntime" -> Str(runtime)
                      [] k = "guestArch" -> Str(normalizeGuestArchitecture(Get(obj, "guestArch"), runtime))
                      [] k = "schemaVersion" -> Num(schemaVersion)
                      [] k = "versionData" -> normalizeVersionData(Get(obj, "versionData"))]
    IN Spread(Spread(defaults, obj), fixed)

\* the while loop of migrateVersionedConfig (lines 416-429)
RECURSIVE MigrationLoop(_, _, _)
MigrationLoop(working, schemaVersion, steps) ==
    IF schemaVersion >= CONFIG_SCHEMA_VERSION
       THEN [threw |-> FALSE, config |-> working, schemaVersion |-> schemaVersion, steps |-> steps]
    ELSE IF schemaVersion = 0
       THEN LET next == migrateConfigV0ToV1(working)
            IN MigrationLoop(next, inferSchemaVersion(next), Append(steps, 0))
    ELSE IF schemaVersion = 1
       THEN LET next == migrateConfigV1ToV2(working)
            IN MigrationLoop(next, inferSchemaVersion(next), Append(steps, 1))
    ELSE [threw |-> TRUE, config |-> working, schemaVersion |-> schemaVersion, steps |-> steps]

migrateVersionedConfig(obj) ==
    LET startingSchemaVersion == inferSchemaVersion(obj)
    IN IF startingSchemaVersion > CONFIG_SCHEMA_VERSION
          THEN [threw |-> FALSE,
                migratedConfig |-> normalizeConfigObject(obj, startingSchemaVersion),
                wasMigrated |-> FALSE,
                startedFrom |-> startingSchemaVersion,
                steps |-> <<>>]
          ELSE LET loop == MigrationLoop(obj, startingSchemaVersion, <<>>)
               IN [threw |-> loop.threw,
                   migratedConfig |-> normalizeConfigObject(loop.config, loop.schemaVersion),
                   wasMigrated |-> startingSchemaVersion # loop.schemaVersion,
                   startedFrom |-> startingSchemaVersion,
                   steps |-> loop.steps]

\* JSON.stringify of a config: a WinboatVersion serializes to its token (toJSON)
Serialize(config) ==
    [k \in DOMAIN config |->
        IF config[k].t = "ver" THEN VersionJson(config[k].s, config[k].c) ELSE config[k]]

\* The file: absent, a text that JSON.parse rejects or parses to no object, or an object.
AbsentFile == [kind |-> "absent", text |-> "", obj |-> <<>>]
TextFile(x) == [kind |-> "text", text |-> x, obj |-> <<>>]
ObjectFile(obj) == [kind |-> "object", text |-> "", obj |-> obj]

\* the texts of the model that are no JSON object: a syntax error, an empty file, and
\* the JSON values null, an array, a number, a string
CorruptTexts == {"{\"scale\": 1", "", "null", "[1, 2]", "42", "\"docker\""}

\* The config objects a file can hold: every combination of these values per key
\* (Undefined: the key is absent).
ScaleChoices == {Undefined, Num(150)}
RuntimeChoices == {Undefined, Null, Str("Docker"), Str(" PODMAN "), Str("QEMU-Native"), Str("lima")}
LegacyChoices(key) ==
    CASE key = "runtime" -> {Undefined, Str("podman")}
      [] key = "container" -> {Undefined, Str("Docker")}
      [] key = "containerType" -> {Undefined, Str("qemu_native")}
GuestArchChoices == {Undefined, Str("amd64"), Str("arm64"), Str("riscv64")}
SchemaVersionChoices == {Undefined, Num(0), Num(1), Num(2), Num(3), Num(-1), Frac(1), Str("2")}
VersionDataChoices == {Undefined, VersionJson("0.8.0", "0.8.0"), VersionJson("nightly", "0.9.0"), Str("0.8.0")}
FutureChoices == {Undefined, Str("on")}

OnlyDefined(f) == [k \in {x \in DOMAIN f : f[x].t # "undefined"} |-> f[k]]

InputObjects ==
    {OnlyDefined("scale" :> a @@ "containerRuntime" :> b @@ "runtime" :> c @@ "container" :> d
                 @@ "containerType" :> e @@ "guestArch" :> f @@ "schemaVersion" :> g
                 @@ "versionData" :> h @@ "futureOption" :> i) :
        a \in ScaleChoices, b \in RuntimeChoices, c \in LegacyChoices("runtime"),
        d \in LegacyChoices("container"), e \in LegacyChoices("containerType"),
        f \in GuestArchChoices, g \in SchemaVersionChoices, h \in VersionDataChoices,
        i \in FutureChoices}

InputFiles ==
    {AbsentFile} \cup {TextFile(x) : x \in CorruptTexts} \cup {ObjectFile(o) : o \in InputObjects}

\* WinboatConfig.backupCorruptedConfig: the raw text goes to a timestamped sibling file
backupCorruptedConfigMut(rawConfig) == cfgBackups
backupCorruptedConfig(rawConfig) == cfgBackups \cup {rawConfig}

NoResult == [path |-> "none", isNull |-> FALSE, config |-> <<>>, threw |-> FALSE,
             wasMigrated |-> FALSE, startedFrom |-> 0, steps |-> <<>>, wrote |-> FALSE]

\* WinboatConfig.readConfigObject(writeDefault)
ReadConfigObject(writeDefault) ==
    /\ cfgInput' = cfgFile
    /\ cfgArg' = writeDefault
    /\ IF cfgFile.kind = "absent"
          THEN IF ~writeDefault
                  THEN /\ cfgResult' = [NoResult EXCEPT !.path = "absent", !.isNull = TRUE]
                       /\ cfgLog' = <<>>
                       /\ UNCHANGED <<cfgFile, cfgBackups>>
                  ELSE /\ cfgResult' = [NoResult EXCEPT !.path = "absent",
                                           !.config = createDefaultConfig, !.wrote = TRUE]
                       /\ cfgFile' = ObjectFile(Serialize(createDefaultConfig))
                       /\ cfgLog' = <<"default">>
                       /\ UNCHANGED cfgBackups
       ELSE IF cfgFile.kind = "text"
          THEN \* lines 545-555: back the raw text up, then write or return the defaults
               /\ cfgBackups' = backupCorruptedConfig(cfgFile)
               /\ cfgResult' = [NoResult EXCEPT !.path = "corrupt",
                                   !.config = createDefaultConfig, !.wrote = writeDefault]
               /\ IF writeDefault
                     THEN /\ cfgFile' = ObjectFile(Serialize(createDefaultConfig))
                          /\ cfgLog' = <<"backup", "default">>
                     ELSE /\ cfgLog' = <<"backup">>
                          /\ UNCHANGED cfgFile
       ELSE LET parsedConfig == cfgFile.obj
                migrationResult == migrateVersionedConfig(parsedConfig)
                migratedConfig == migrationResult.migratedConfig
                hasAllKeys == configKeys \subseteq DOMAIN parsedConfig
                rewrite == \/ migrationResult.wasMigrated
                           \/ Serialize(migratedConfig) # parsedConfig
                           \/ ~hasAllKeys
            IN IF ~migrationResult.threw
                  THEN /\ cfgResult' = [NoResult EXCEPT
                              !.path = IF migrationResult.startedFrom > CONFIG_SCHEMA_VERSION
                                          THEN "newer" ELSE "chain",
                              !.config = migratedConfig,
                              !.wasMigrated = migrationResult.wasMigrated,
                              !.startedFrom = migrationResult.startedFrom,
                              !.steps = migrationResult.steps,
                              !.wrote = rewrite]
                       /\ cfgFile' = IF rewrite THEN ObjectFile(Serialize(migratedConfig)) ELSE cfgFile
                       /\ cfgLog' = IF rewrite THEN <<"normalized">> ELSE <<>>
                       /\ UNCHANGED cfgBackups
                  ELSE \* lines 578-590: the fallback on the parsed object
                       /\ cfgResult' = [NoResult EXCEPT
                              !.path = "fallback",
                              !.config = normalizeConfigObject(parsedConfig, inferSchemaVersion(parsedConfig)),
                              !.startedFrom = migrationResult.startedFrom,
                              !.steps = migrationResult.steps]
                       /\ cfgLog' = <<>>
                       /\ UNCHANGED <<cfgFile, cfgBackups>>
    /\ UNCHANGED nonConfig

ReadConfig == \E writeDefault \in BOOLEAN : ReadConfigObject(writeDefault)

\* ------------------------------------------------------------------------
\* Supervisor: src/unnamed/part_003, settings toggle of src/unnamed/part_001
\* ------------------------------------------------------------------------
TickIds == 1..MaxTicks
QmpTickIds == 1..MaxQmpTicks

NoAttempt == [made |-> FALSE, status |-> "EXITED", refreshed |-> FALSE]

QmpOff == [at |-> "off", arg |-> 0]

\* the environment of the supervisor and its polling tick, left alone by the QMP steps
pollSide == <<runtimeStatus, runEpoch, containerStatus, pollPc, pollArg, overlapped, portCache,
              runningTick, portRefreshed, healthInterval>>

\* the QMP interval and the control-channel session, left alone by most polling steps
qmpSide == <<qmpInterval, qmpPc, qmpMgr, sockets, qmpAttempt>>

\* the polling interval fires and the tick calls containerMgr.getStatus(); the callback
\* takes the first free place
PollFire(t) ==
    /\ pollPc[t] = "idle"
    /\ \A u \in TickIds : u < t => pollPc[u] # "idle"
    /\ pollPc' = [pollPc EXCEPT ![t] = "getStatus"]
    /\ overlapped' = (overlapped \/ \E u \in TickIds : pollPc[u] # "idle")
    /\ UNCHANGED <<runtimeStatus, runEpoch, containerStatus, pollArg, portCache,
                   runningTick, portRefreshed, healthInterval, experimentalFeatures>>
    /\ UNCHANGED qmpSide
    /\ UNCHANGED nonSupervisor

\* getStatus() resolves (UNKNOWN when the status command failed); a changed status is
\* stored before the tick awaits port() or destroyAPIIntervals()
PollGetStatus(t) ==
    /\ pollPc[t] = "getStatus"
    /\ \E status \in {runtimeStatus, "UNKNOWN"} :
          IF status = containerStatus
             THEN /\ pollPc' = [pollPc EXCEPT ![t] = "idle"]
                  /\ UNCHANGED <<containerStatus, runningTick, portRefreshed>>
             ELSE /\ containerStatus' = status
                  /\ IF status = "RUNNING"
                        THEN /\ pollPc' = [pollPc EXCEPT ![t] = "port"]
                             /\ runningTick' = t
                             /\ portRefreshed' = FALSE
                        ELSE /\ pollPc' = [pollPc EXCEPT ![t] = "destroy"]
                             /\ UNCHANGED <<runningTick, portRefreshed>>
    /\ UNCHANGED <<runtimeStatus, runEpoch, pollArg, overlapped, portCache, experimentalFeatures,
                   healthInterval>>
    /\ UNCHANGED qmpSide
    /\ UNCHANGED nonSupervisor

\* containerMgr.port() resolves: the port cache holds the bindings of the current run
PollPortDone(t) ==
    /\ pollPc[t] = "port"
    /\ portCache' = runEpoch
    /\ portRefreshed' = (IF runningTick = t THEN TRUE ELSE portRefreshed)
    /\ pollPc' = [pollPc EXCEPT ![t] = "create"]
    /\ UNCHANGED <<runtimeStatus, runEpoch, containerStatus, pollArg, overlapped, runningTick,
                   experimentalFeatures, healthInterval>>
    /\ UNCHANGED qmpSide
    /\ UNCHANGED nonSupervisor

\* containerMgr.port() rejects (the engine's port command failed): the tick ends there
PollPortThrows(t) ==
    /\ pollPc[t] = "port"
    /\ pollPc' = [pollPc EXCEPT ![t] = "idle"]
    /\ UNCHANGED <<runtimeStatus, runEpoch, containerStatus, pollArg, overlapped, portCache,
                   runningTick, portRefreshed, experimentalFeatures, healthInterval>>
    /\ UNCHANGED qmpSide
    /\ UNCHANGED nonSupervisor

\* QMPManager.createConnection reaches the instance only through the bindings of the run
ConnectionSucceeds(port) == runtimeStatus = "RUNNING" /\ port # 0 /\ port = runEpoch

\* #connectQMPManager up to its first await: createConnection is called with the port
\* getActiveHostPort reads from the cache
ConnectStart(i) ==
    /\ qmpAttempt' = [made |-> TRUE, status |-> containerStatus, refreshed |-> portRefreshed]
    /\ qmpPc' = [qmpPc EXCEPT ![i] = [at |-> "connect", arg |-> portCache]]

\* the callback of the QMP interval up to its first await: it clears the interval when
\* experimentalFeatures is off and goes on, probing the session if there is one
\* (interval is the value of #qmpInterval the callback finds)
QmpCallbackStart(i, interval) ==
    /\ qmpPc[i].at = "off"
    /\ \A j \in QmpTickIds : j < i => qmpPc[j].at # "off"
    /\ qmpInterval' = (IF experimentalFeatures THEN interval ELSE FALSE)
    /\ IF qmpMgr # 0
          THEN /\ qmpPc' = [qmpPc EXCEPT ![i] = [at |-> "probe", arg |-> qmpMgr]]
               /\ UNCHANGED qmpAttempt
          ELSE ConnectStart(i)
    /\ UNCHANGED <<qmpMgr, sockets>>

\* Winboat.createQMPInterval: setIntervalImmediately runs the callback at once and sets
\* the interval
CreateQMPInterval == \E i \in QmpTickIds : QmpCallbackStart(i, TRUE)

\* Winboat.createAPIIntervals
PollCreate(t) ==
    /\ pollPc[t] = "create"
    /\ healthInterval' = TRUE
    /\ IF experimentalFeatures
          THEN CreateQMPInterval
          ELSE /\ qmpInterval' = FALSE
               /\ UNCHANGED <<qmpPc, qmpMgr, sockets, qmpAttempt>>
    /\ pollPc' = [pollPc EXCEPT ![t] = "idle"]
    /\ UNCHANGED <<runtimeStatus, runEpoch, containerStatus, pollArg, overlapped, portCache,
                   runningTick, portRefreshed, experimentalFeatures>>
    /\ UNCHANGED nonSupervisor

\* Winboat.destroyAPIIntervals up to its first await: only when the QMP interval is set
\* does it go on to the session, probing it before destroying its socket
PollDestroy(t) ==
    /\ pollPc[t] = "destroy"
    /\ healthInterval' = FALSE
    /\ qmpInterval' = FALSE
    /\ IF qmpInterval /\ qmpMgr # 0
          THEN /\ pollPc' = [pollPc EXCEPT ![t] = "destroyProbe"]
               /\ pollArg' = [pollArg EXCEPT ![t] = qmpMgr]
          ELSE /\ pollPc' = [pollPc EXCEPT ![t] = "idle"]
               /\ UNCHANGED pollArg
    /\ UNCHANGED <<runtimeStatus, runEpoch, containerStatus, overlapped, portCache, runningTick,
                   portRefreshed, experimentalFeatures, qmpPc, qmpMgr, sockets, qmpAttempt>>
    /\ UNCHANGED nonSupervisor

\* what isAlive() of a session can answer: true only on an open socket, false also when
\* the probe of an open socket times out
ProbeAnswers(session) == IF sockets[session] = "open" THEN BOOLEAN ELSE {FALSE}

\* destroyAPIIntervals after isAlive() resolved: the socket of the session qmpMgr holds
\* now is destroyed when the probe answered, and qmpMgr is set to null
PollDestroyProbeDone(t) ==
    /\ pollPc[t] = "destroyProbe"
    /\ \E isAlive \in ProbeAnswers(pollArg[t]) :
          sockets' = (IF isAlive /\ qmpMgr # 0
                         THEN [sockets EXCEPT ![qmpMgr] = "destroyed"]
                         ELSE sockets)
    /\ qmpMgr' = 0
    /\ pollPc' = [pollPc EXCEPT ![t] = "idle"]
    /\ pollArg' = [pollArg EXCEPT ![t] = 0]
    /\ UNCHANGED <<runtimeStatus, runEpoch, containerStatus, overlapped, portCache, runningTick,
                   portRefreshed, experimentalFeatures, healthInterval, qmpInterval,
                   qmpPc, qmpAttempt>>
    /\ UNCHANGED nonSupervisor

\* the settings switch flips config.experimentalFeatures, then toggleExperimentalFeatures
ToggleExperimentalFeatures ==
    /\ experimentalFeatures' = ~experimentalFeatures
    /\ IF experimentalFeatures' /\ containerStatus = "RUNNING" /\ ~qmpInterval
          THEN CreateQMPInterval
          ELSE UNCHANGED qmpSide
    /\ UNCHANGED pollSide
    /\ UNCHANGED nonSupervisor

\* QMP_WAIT_MS have passed and the QMP interval fires, whether or not the callback of
\* an earlier tick has finished
QMPIntervalFires(i) ==
    /\ qmpInterval
    /\ QmpCallbackStart(i, qmpInterval)
    /\ UNCHANGED experimentalFeatures
    /\ UNCHANGED pollSide
    /\ UNCHANGED nonSupervisor

\* the callback after isAlive() resolved: it returns when the session answered and
\* connects anew when it did not
QMPProbeDone(i) ==
    /\ qmpPc[i].at = "probe"
    /\ \E isAlive \in ProbeAnswers(qmpPc[i].arg) :
          IF isAlive
             THEN /\ qmpPc' = [qmpPc EXCEPT ![i] = QmpOff]
                  /\ UNCHANGED qmpAttempt
             ELSE ConnectStart(i)
    /\ UNCHANGED <<qmpInterval, qmpMgr, sockets, experimentalFeatures>>
    /\ UNCHANGED pollSide
    /\ UNCHANGED nonSupervisor

\* createConnection resolves: qmpMgr holds the new session; the socket of the session it
\* held before is left as it is
QMPConnectDone(i) ==
    /\ qmpPc[i].at = "connect"
    /\ ConnectionSucceeds(qmpPc[i].arg)
    /\ Len(sockets) < MaxSessions
    /\ sockets' = Append(sockets, "open")
    /\ qmpMgr' = Len(sockets) + 1
    /\ qmpPc' = [qmpPc EXCEPT ![i] = QmpOff]
    /\ UNCHANGED <<qmpInterval, qmpAttempt, experimentalFeatures>>
    /\ UNCHANGED pollSide
    /\ UNCHANGED nonSupervisor

\* createConnection rejects (wrong or no port, instance down, guest not listening yet):
\* #connectQMPManager logs the error and returns
QMPConnectFails(i) ==
    /\ qmpPc[i].at = "connect"
    /\ qmpPc' = [qmpPc EXCEPT ![i] = QmpOff]
    /\ UNCHANGED <<qmpInterval, qmpMgr, sockets, qmpAttempt, experimentalFeatures>>
    /\ UNCHANGED pollSide
    /\ UNCHANGED nonSupervisor

\* The instance comes up, by the user or by the engine's restart policy
RuntimeStarts ==
    /\ runtimeStatus # "RUNNING"
    /\ runEpoch < MaxRuns
    /\ runtimeStatus' = "RUNNING"
    /\ runEpoch' = runEpoch + 1
    /\ UNCHANGED <<containerStatus, pollPc, pollArg, overlapped, portCache, runningTick,
                   portRefreshed, healthInterval, experimentalFeatures>>
    /\ UNCHANGED qmpSide
    /\ UNCHANGED nonSupervisor

\* The instance goes down; the control-channel sockets it served are closed by the peer
RuntimeStops ==
    /\ runtimeStatus = "RUNNING"
    /\ runtimeStatus' = "EXITED"
    /\ sockets' = [n \in DOMAIN sockets |-> IF sockets[n] = "open" THEN "closed" ELSE sockets[n]]
    /\ UNCHANGED <<runEpoch, containerStatus, pollPc, pollArg, overlapped, portCache, runningTick,
                   portRefreshed, healthInterval, experimentalFeatures, qmpInterval,
                   qmpPc, qmpMgr, qmpAttempt>>
    /\ UNCHANGED nonSupervisor

\* ------------------------------------------------------------------------
\* Runtime capabilities: feature flags (src/unnamed/part_002), host
\* constants and runtime kinds (src/unnamed/part_005), supported runtimes
\* and the capability resolver (containers/common.ts)
\* ------------------------------------------------------------------------
HostPlatforms == {"linux", "darwin", "win32"}
HostArchs == {"x64", "arm64"}

\* an environment variable that is not set
Unset == "<unset>"
FlagTokens == {Unset, "1", "0", "TRUE", "Yes", " true ", "on"}

\* (process.env[name] ?? "").trim().toLowerCase(), on the tokens of the model
FlagTrimLower(x) ==
    CASE x = Unset -> ""
      [] x = "TRUE" -> "true"
      [] x = "Yes" -> "yes"
      [] x = " true " -> "true"
      [] OTHER -> x

envFlagEnabled(value) == FlagTrimLower(value) \in {"1", "true", "yes"}

isExperimentalMacNativeRuntimeEnabled == envFlagEnabled(envCanonical) \/ envFlagEnabled(envLegacy)

IS_LINUX == hostPlatform = "linux"
IS_MACOS == hostPlatform = "darwin"
IS_APPLE_SILICON == IS_MACOS /\ hostArch = "arm64"

getHostProfile == [isLinux |-> IS_LINUX, isMacOS |-> IS_MACOS, isAppleSilicon |-> IS_APPLE_SILICON]

\* Object.values(ContainerRuntimes), of the enum of containers/common.ts
ContainerRuntimesValues == <<DOCKER, PODMAN>>

\* the runtime kinds the resolver and the capability matrix are asked about
RuntimeKinds == {DOCKER, PODMAN, QEMU_NATIVE}

getSupportedContainerRuntimes ==
    IF hostPlatform = "darwin" THEN <<DOCKER>> ELSE ContainerRuntimesValues

getSupportedRuntimeKinds == getSupportedContainerRuntimes

Includes(seq, x) == \E n \in DOMAIN seq : seq[n] = x

NoReason == "undefined"
ReasonPodmanLinuxOnly == "Podman runtime is currently supported only on Linux hosts."
ReasonNeedsAppleSilicon == "QEMU Native runtime currently requires macOS on Apple Silicon."
ReasonHiddenBehindFlag == "QEMU Native runtime is currently hidden behind WINBOAT_EXPERIMENTAL_MAC_NATIVE_RUNTIME=1 (legacy: WINBOAT_EXPERIMENTAL_QEMU_NATIVE=1)."

getUnsupportedReason(runtime, hostProfile) ==
    IF runtime = PODMAN /\ ~hostProfile.isLinux THEN ReasonPodmanLinuxOnly
    ELSE IF runtime = QEMU_NATIVE /\ (~hostProfile.isMacOS \/ ~hostProfile.isAppleSilicon)
         THEN ReasonNeedsAppleSilicon
    ELSE IF runtime = QEMU_NATIVE /\ ~isExperimentalMacNativeRuntimeEnabled
         THEN ReasonHiddenBehindFlag
    ELSE NoReason

getRuntimeCapabilities(runtime, hostProfile) ==
    LET base == [asked |-> TRUE,
                 runtime |-> runtime,
                 supportedOnHost |-> Includes(getSupportedRuntimeKinds, runtime),
                 experimental |-> FALSE,
                 supportsCompose |-> TRUE,
                 supportsUsbPassthrough |-> FALSE,
                 supportsQmp |-> TRUE,
                 supportsAutoStart |-> TRUE,
                 supportsGuidedInstall |-> TRUE,
                 guestArchitecture |-> getPreferredGuestArchitecture(runtime),
                 unsupportedReason |-> getUnsupportedReason(runtime, hostProfile)]
    IN CASE runtime = DOCKER ->
                [base EXCEPT !.supportsUsbPassthrough = hostProfile.isLinux]
         [] runtime = PODMAN -> base
         [] runtime = QEMU_NATIVE ->
                [base EXCEPT !.experimental = TRUE,
                             !.supportsCompose = FALSE,
                             !.supportsAutoStart = FALSE,
                             !.supportsGuidedInstall = FALSE]

NoCapabilities ==
    [asked |-> FALSE, runtime |-> DOCKER, supportedOnHost |-> FALSE, experimental |-> FALSE,
     supportsCompose |-> FALSE, supportsUsbPassthrough |-> FALSE, supportsQmp |-> FALSE,
     supportsAutoStart |-> FALSE, supportsGuidedInstall |-> FALSE,
     guestArchitecture |-> "amd64", unsupportedReason |-> NoReason]

NoKinds == [asked |-> FALSE, kinds |-> <<>>]

\* getRuntimeCapabilities(runtime), with the default host profile
QueryCapabilities(runtime) ==
    /\ capResult' = getRuntimeCapabilities(runtime, getHostProfile)
    /\ UNCHANGED <<hostPlatform, hostArch, envCanonical, envLegacy, kindsResult>>
    /\ UNCHANGED nonCapabilities

QuerySupportedKinds ==
    /\ kindsResult' = [asked |-> TRUE, kinds |-> getSupportedRuntimeKinds]
    /\ UNCHANGED <<hostPlatform, hostArch, envCanonical, envLegacy, capResult>>
    /\ UNCHANGED nonCapabilities

\* ------------------------------------------------------------------------
\* Port bindings: port() of the backends (docker.ts, podman.ts,
\* src/unnamed/part_004) and getActiveHostPort (containers/common.ts)
\* ------------------------------------------------------------------------
GuestPorts == {7149, 3389}
Protocols == {"tcp", "udp"}
HostTexts == {"47293", "47290-47299", ""}
MaxMappings == 2

\* the host of a ComposePortEntry: a number, a Range, or NaN
HostNumber(n) == [kind |-> "number", lo |-> n, hi |-> n]
HostRange(lo, hi) == [kind |-> "range", lo |-> lo, hi |-> hi]
HostNaN == [kind |-> "NaN", lo |-> 0, hi |-> 0]
HostUndefined == [kind |-> "undefined", lo |-> 0, hi |-> 0]

\* Number.parseInt(text, 10), on the host texts of the model; 0 stands for NaN
ParseInt(text) ==
    CASE text = "47293" -> 47293
      [] text = "47290-47299" -> 47290
      [] OTHER -> 0

\* the host part of a short token: empty is dynamic (NaN), lo-hi is a Range
ParseHostPart(text) ==
    CASE text = "" -> HostNaN
      [] text = "47290-47299" -> HostRange(47290, 47299)
      [] OTHER -> HostNumber(ParseInt(text))

\* new ComposePortEntry("hostIP:host:container/proto")
ComposePortEntry(mapping) ==
    [host |-> ParseHostPart(mapping.host),
     container |-> mapping.container,
     protocol |-> IF mapping.proto = "" THEN "tcp" ELSE mapping.proto]

\* what a line that is not "container/proto -> ip:host" becomes: no field is a number
JunkEntry == [host |-> HostNaN, container |-> 0, protocol |-> "tcp"]

\* a ports entry of the descriptor, short token or long form, and a line of `port <name>`
DescriptorMappings ==
    [form : {"short", "long"}, host : HostTexts, container : GuestPorts,
     proto : {""} \cup Protocols]
EngineLines ==
    [form : {"short"}, host : {"47293"}, container : GuestPorts, proto : Protocols]

SeqsUpTo(S, n) == UNION {[1..m -> S] : m \in 0..n}

RECURSIVE NativePortEntries(_)
NativePortEntries(ports) ==
    IF ports = <<>> THEN <<>>
    ELSE LET mapping == Head(ports)
             rest == NativePortEntries(Tail(ports))
         IN IF mapping.form = "short" THEN <<ComposePortEntry(mapping)>> \o rest
            ELSE IF mapping.host = "" \/ ParseInt(mapping.host) = 0 THEN rest
            ELSE <<[host |-> HostNumber(ParseInt(mapping.host)),
                    container |-> mapping.container,
                    protocol |-> IF mapping.proto = "" THEN "tcp" ELSE mapping.proto]>> \o rest

EnginePortEntries(lines) ==
    IF lines = <<>> THEN <<JunkEntry>>
    ELSE [n \in DOMAIN lines |-> ComposePortEntry(lines[n])]

PortEntries(backend, source) ==
    IF backend = QEMU_NATIVE THEN NativePortEntries(source) ELSE EnginePortEntries(source)

NoPortCache == [set |-> FALSE, entries |-> <<>>]
NoPortQuery == [asked |-> FALSE, cached |-> FALSE, port |-> 0, protocol |-> "tcp",
                result |-> HostUndefined]

FirstMatch(entries, port, protocol) ==
    LET matches == {n \in DOMAIN entries :
                        entries[n].container = port /\ entries[n].protocol = protocol}
    IN IF matches = {} THEN 0 ELSE CHOOSE n \in matches : \A m \in matches : n <= m

getActiveHostPort(cache, port, protocol) ==
    IF ~cache.set \/ FirstMatch(cache.entries, port, protocol) = 0 THEN HostUndefined
    ELSE cache.entries[FirstMatch(cache.entries, port, protocol)].host

\* port() returns: the bindings are cached.  (A port() that rejects leaves the
\* cache as it was, which is the state before the call.)
PortCall ==
    /\ cachedPortMappings' = [set |-> TRUE, entries |-> PortEntries(portBackend, portSource)]
    /\ UNCHANGED <<portBackend, portSource, portQuery>>
    /\ UNCHANGED nonPorts

GetActiveHostPortCall(port, protocol) ==
    /\ portQuery' = [asked |-> TRUE, cached |-> cachedPortMappings.set, port |-> port,
                     protocol |-> protocol,
                     result |-> getActiveHostPort(cachedPortMappings, port, protocol)]
    /\ UNCHANGED <<portBackend, portSource, cachedPortMappings>>
    /\ UNCHANGED nonPorts

\* ------------------------------------------------------------------------
\* Control-channel handshake: #connectQMPManager, the QMP interval and the
\* probe of destroyAPIIntervals, command by command (src/unnamed/part_003)
\* ------------------------------------------------------------------------
MaxConns == 2
MaxCommands == 3

HsCallbacks == 1..MaxQmpTicks
HsOff == [at |-> "off", conn |-> 0]

\* executeCommand(cmd) on a connection: the command goes out on its socket
Send(log, conn, cmd) ==
    [log EXCEPT ![conn] = Append(@, [cmd |-> cmd, confirmed |-> conn \in hsConfirmed])]

CanSend(conn) == Len(hsLog[conn]) < MaxCommands

\* a callback of the QMP interval begins: with a manager it probes it
\* (isAlive sends query-commands), without one it connects
HsCallbackStart(i) ==
    /\ hsPc[i] = HsOff
    /\ IF hsMgr # 0
       THEN /\ CanSend(hsMgr)
            /\ hsLog' = Send(hsLog, hsMgr, "query-commands")
            /\ hsPc' = [hsPc EXCEPT ![i] = [at |-> "probe", conn |-> hsMgr]]
       ELSE /\ hsPc' = [hsPc EXCEPT ![i] = [at |-> "connecting", conn |-> 0]]
            /\ UNCHANGED hsLog
    /\ UNCHANGED <<hsMgr, hsConfirmed>>
    /\ UNCHANGED nonHandshake

\* isAlive() answers: alive ends the callback, anything else reconnects
HsProbeDone(i) ==
    /\ hsPc[i].at = "probe"
    /\ \E isAlive \in BOOLEAN :
           hsPc' = [hsPc EXCEPT ![i] = IF isAlive THEN HsOff
                                       ELSE [at |-> "connecting", conn |-> 0]]
    /\ UNCHANGED <<hsMgr, hsLog, hsConfirmed>>
    /\ UNCHANGED nonHandshake

\* createConnection resolves: qmpMgr is assigned and qmp_capabilities is sent
HsConnected(i) ==
    /\ hsPc[i].at = "connecting"
    /\ Len(hsLog) < MaxConns
    /\ LET conn == Len(hsLog) + 1
       IN /\ hsMgr' = conn
          /\ hsLog' = Append(hsLog, <<[cmd |-> "qmp_capabilities", confirmed |-> FALSE]>>)
          /\ hsPc' = [hsPc EXCEPT ![i] = [at |-> "negotiating", conn |-> conn]]
    /\ UNCHANGED hsConfirmed
    /\ UNCHANGED nonHandshake

\* createConnection rejects: logged, the callback ends
HsConnectFails(i) ==
    /\ hsPc[i].at = "connecting"
    /\ hsPc' = [hsPc EXCEPT ![i] = HsOff]
    /\ UNCHANGED <<hsMgr, hsLog, hsConfirmed>>
    /\ UNCHANGED nonHandshake

\* qmp_capabilities answers with "return": query-commands is sent on what
\* this.qmpMgr holds now (the call throws if it is null by now)
HsNegotiated(i) ==
    /\ hsPc[i].at = "negotiating"
    /\ hsMgr # 0 => CanSend(hsMgr)
    /\ hsConfirmed' = hsConfirmed \cup {hsPc[i].conn}
    /\ IF hsMgr # 0
       THEN /\ hsLog' = [hsLog EXCEPT ![hsMgr] =
                            Append(@, [cmd |-> "query-commands",
                                       confirmed |-> hsMgr \in hsConfirmed'])]
            /\ hsPc' = [hsPc EXCEPT ![i] = [at |-> "querying", conn |-> hsMgr]]
       ELSE /\ hsPc' = [hsPc EXCEPT ![i] = HsOff]
            /\ UNCHANGED hsLog
    /\ UNCHANGED hsMgr
    /\ UNCHANGED nonHandshake

\* qmp_capabilities answers without "return" or fails: the assertion or the
\* call throws, the error is logged, qmpMgr is kept
HsNegotiationFails(i) ==
    /\ hsPc[i].at = "negotiating"
    /\ hsPc' = [hsPc EXCEPT ![i] = HsOff]
    /\ UNCHANGED <<hsMgr, hsLog, hsConfirmed>>
    /\ UNCHANGED nonHandshake

\* query-commands answers (or fails): the callback ends
HsQueryDone(i) ==
    /\ hsPc[i].at = "querying"
    /\ hsPc' = [hsPc EXCEPT ![i] = HsOff]
    /\ UNCHANGED <<hsMgr, hsLog, hsConfirmed>>
    /\ UNCHANGED nonHandshake

\* destroyAPIIntervals with the QMP interval set: the manager is probed and dropped
HsDestroy ==
    /\ hsMgr # 0
    /\ CanSend(hsMgr)
    /\ hsLog' = Send(hsLog, hsMgr, "query-commands")
    /\ hsMgr' = 0
    /\ UNCHANGED <<hsPc, hsConfirmed>>
    /\ UNCHANGED nonHandshake

\* ------------------------------------------------------------------------
\* Configuration owner: the config getter and setter of WinboatConfig
\* (src/unnamed/part_005) and the handlers that mutate it (src/unnamed/part_001)
\* ------------------------------------------------------------------------
MaxRdpArgs == 2
Scales == {100, 140}
RdpArgTexts == {"", "/f"}
RdpArgs == [newArg : RdpArgTexts, isReplacement : BOOLEAN]
VersionTokens == {"0.8.0", "0.9.0"}

OwnerConfigs ==
    [scale : Scales,
     rdpArgs : {<<>>, <<[newArg |-> "/f", isReplacement |-> FALSE]>>},
     versionData : [previous : VersionTokens, current : VersionTokens]]

\* writeConfigObject(obj): the file holds what obj holds at the time of the call
writeConfigObject(obj) == obj

\* config.<key> = value on the proxy: Reflect.set, then the target is written
ProxySet(key, value) ==
    /\ key = "scale"
    /\ value \in Scales
    /\ configData' = [configData EXCEPT !.scale = value]
    /\ configOnDisk' = writeConfigObject(configData')
    /\ lastMutation' = "top-level"
    /\ UNCHANGED nonOwner

\* wbConfig.config = newConfig: a shallow copy is kept, newConfig is written
ConfigSetter(newConfig) ==
    /\ configData' = newConfig
    /\ configOnDisk' = writeConfigObject(newConfig)
    /\ lastMutation' = "replace"
    /\ UNCHANGED nonOwner

\* config.rdpArgs.push(arg): the proxy's get hands out the array itself
RdpArgsPush(arg) ==
    /\ Len(configData.rdpArgs) < MaxRdpArgs
    /\ configData' = [configData EXCEPT !.rdpArgs = Append(@, arg)]
    /\ lastMutation' = "nested"
    /\ UNCHANGED configOnDisk
    /\ UNCHANGED nonOwner

\* config.rdpArgs.splice(index, 1)
RdpArgsSplice(index) ==
    /\ index \in DOMAIN configData.rdpArgs
    /\ configData' = [configData EXCEPT !.rdpArgs =
                         SubSeq(@, 1, index - 1) \o SubSeq(@, index + 1, Len(@))]
    /\ lastMutation' = "nested"
    /\ UNCHANGED configOnDisk
    /\ UNCHANGED nonOwner

\* arg.newArg = text, on an entry of config.rdpArgs
RdpArgEdit(index, text) ==
    /\ index \in DOMAIN configData.rdpArgs
    /\ configData.rdpArgs[index].newArg # text
    /\ configData' = [configData EXCEPT !.rdpArgs[index].newArg = text]
    /\ lastMutation' = "nested"
    /\ UNCHANGED configOnDisk
    /\ UNCHANGED nonOwner

\* config.versionData.previous = config.versionData.current;
\* config.versionData.current = token
VersionDataUpdate(token) ==
    /\ configData.versionData.current # token
    /\ configData' = [configData EXCEPT !.versionData =
                         [previous |-> @.current, current |-> token]]
    /\ lastMutation' = "nested"
    /\ UNCHANGED configOnDisk
    /\ UNCHANGED nonOwner

\* ------------------------------------------------------------------------
\* Instance descriptor file: writeCompose of the backends (docker.ts,
\* podman.ts, src/unnamed/part_004) and replaceCompose (src/unnamed/part_003)
\* ------------------------------------------------------------------------
MaxDescriptors == 3
MaxWrites == 2

Descriptors == 1..MaxDescriptors
AbsentDescriptor == [kind |-> "absent", content |-> 0]
CompleteDescriptor(c) == [kind |-> "complete", content |-> c]
\* a file opened with truncation whose content has not all been written
PartialDescriptor(c) == [kind |-> "partial", content |-> c]
NoDescOp == [op |-> "none", prev |-> AbsentDescriptor, new |-> 0]

\* writeCompose: fs.writeFileSync opens the file in place, truncating it
WriteComposeOpen(c) ==
    /\ descPc = "idle"
    /\ descWrites < MaxWrites
    /\ descWrites' = descWrites + 1
    /\ descOp' = [op |-> "write", prev |-> descFile, new |-> c]
    /\ descFile' = PartialDescriptor(c)
    /\ descPc' = "opened"
    /\ UNCHANGED descBackups
    /\ UNCHANGED nonDescriptor

\* replaceCompose, step 3: the current file is renamed into the backup directory
ReplaceComposeBackup(c) ==
    /\ descPc = "idle"
    /\ descWrites < MaxWrites
    /\ descFile.kind = "complete"
    /\ descWrites' = descWrites + 1
    /\ descOp' = [op |-> "replace", prev |-> descFile, new |-> c]
    /\ descBackups' = descBackups \cup {descFile.content}
    /\ descFile' = AbsentDescriptor
    /\ descPc' = "renamed"
    /\ UNCHANGED nonDescriptor

\* replaceCompose, step 4: writeCompose opens the new file
ReplaceComposeOpen ==
    /\ descPc = "renamed"
    /\ descFile' = PartialDescriptor(descOp.new)
    /\ descPc' = "opened"
    /\ UNCHANGED <<descBackups, descOp, descWrites>>
    /\ UNCHANGED nonDescriptor

\* fs.writeFileSync returns: the whole content is in the file
WriteComposeDone ==
    /\ descPc = "opened"
    /\ descFile' = CompleteDescriptor(descOp.new)
    /\ descPc' = "idle"
    /\ UNCHANGED <<descBackups, descOp, descWrites>>
    /\ UNCHANGED nonDescriptor

\* the program dies where it is; the files stay as they are
Crash ==
    /\ descPc \in {"idle", "renamed", "opened"}
    /\ descPc' = (CASE descPc = "idle" -> "crashed_idle"
                    [] descPc = "renamed" -> "crashed_renamed"
                    [] descPc = "opened" -> "crashed_opened")
    /\ UNCHANGED <<descFile, descBackups, descOp, descWrites>>
    /\ UNCHANGED nonDescriptor

\* ------------------------------------------------------------------------
\* Guest server update: checkVersionAndUpdateGuestServer and getHealth
\* (src/unnamed/part_003)
\* ------------------------------------------------------------------------
GuestBehaviours == {"answers", "refuses", "silent"}
ReportedArchs == {"amd64", "aarch64", "riscv", "undefined"}

\* normalizeGuestArchitectureToken, on the tokens of the model; "null" when unknown
normalizeGuestArchitectureToken(archToken) ==
    CASE archToken = "amd64" -> "amd64"
      [] archToken = "aarch64" -> "arm64"
      [] OTHER -> "null"

shouldUpdateForArch ==
    IF normalizeGuestArchitectureToken(guReportedArch) # "null"
    THEN normalizeGuestArchitectureToken(guReportedArch) # guConfiguredArch
    ELSE guConfiguredArch = "arm64"

guInputs == <<guVersionSame, guReportedArch, guConfiguredArch, guZipExists>>

\* the call begins: GET /version is sent, with no timeout
GuCall ==
    /\ guPc = "idle"
    /\ guPc' = "version"
    /\ UNCHANGED <<guest, isUpdatingGuestServer, guInputs>>
    /\ UNCHANGED nonGuest

\* /version is answered: steps 1 to 4, up to sending POST /update
GuVersionAnswers ==
    /\ guPc = "version"
    /\ guest = "answers"
    /\ IF guVersionSame /\ ~shouldUpdateForArch
       THEN guPc' = "returned" /\ UNCHANGED isUpdatingGuestServer
       ELSE IF ~guZipExists
       THEN guPc' = "threw" /\ isUpdatingGuestServer' = FALSE
       ELSE guPc' = "update" /\ isUpdatingGuestServer' = TRUE
    /\ UNCHANGED <<guest, guInputs>>
    /\ UNCHANGED nonGuest

\* the connection to /version is refused: the call rejects
GuVersionRefused ==
    /\ guPc = "version"
    /\ guest = "refuses"
    /\ guPc' = "threw"
    /\ UNCHANGED <<guest, isUpdatingGuestServer, guInputs>>
    /\ UNCHANGED nonGuest

\* POST /update is answered: 200 goes on to the 3 s wait, anything else throws
GuUpdateAnswers ==
    /\ guPc = "update"
    /\ guest = "answers"
    /\ \E ok \in BOOLEAN :
           IF ok THEN guPc' = "wait" /\ UNCHANGED isUpdatingGuestServer
           ELSE guPc' = "threw" /\ isUpdatingGuestServer' = FALSE
    /\ UNCHANGED <<guest, guInputs>>
    /\ UNCHANGED nonGuest

GuUpdateRefused ==
    /\ guPc = "update"
    /\ guest = "refuses"
    /\ guPc' = "threw"
    /\ isUpdatingGuestServer' = FALSE
    /\ UNCHANGED <<guest, guInputs>>
    /\ UNCHANGED nonGuest

\* a setTimeout of step 5 fires: getHealth() is called
GuTimerFires ==
    /\ guPc \in {"wait", "sleep"}
    /\ guPc' = "health"
    /\ UNCHANGED <<guest, isUpdatingGuestServer, guInputs>>
    /\ UNCHANGED nonGuest

\* getHealth() returns: true on a 200, false on an error and on the
\* FETCH_TIMEOUT abort; false sleeps 1 s and asks again
GuHealthReturns ==
    /\ guPc = "health"
    /\ guPc' = (IF guest = "answers" THEN "set_hash" ELSE "sleep")
    /\ UNCHANGED <<guest, isUpdatingGuestServer, guInputs>>
    /\ UNCHANGED nonGuest

\* step 6: POST /auth/set-hash, with no timeout, is answered or fails; both end the call
GuSetHashDone ==
    /\ guPc = "set_hash"
    /\ guest \in {"answers", "refuses"}
    /\ guPc' = "returned"
    /\ isUpdatingGuestServer' = FALSE
    /\ UNCHANGED <<guest, guInputs>>
    /\ UNCHANGED nonGuest

\* the guest: it comes up, shuts down, or hangs and never answers again
GuestChanges ==
    /\ guPc \notin {"returned", "threw"}
    /\ guest # "silent"
    /\ \E b \in GuestBehaviours \ {guest} : guest' = b
    /\ UNCHANGED <<guPc, isUpdatingGuestServer, guInputs>>
    /\ UNCHANGED nonGuest

GuProgramStep ==
    \/ GuCall
    \/ GuVersionAnswers
    \/ GuVersionRefused
    \/ GuUpdateAnswers
    \/ GuUpdateRefused
    \/ GuTimerFires
    \/ GuHealthReturns
    \/ GuSetHashDone

\* ------------------------------------------------------------------------
\* Startup: the WinboatConfig constructor (src/unnamed/part_005 450-479) and the
\* Winboat constructor (src/unnamed/part_003 282-300), run once each, in this order
\* ------------------------------------------------------------------------
NoManager == "none"

\* createRuntime(type): new ContainerImplementations[type]()
createRuntime(type) == type

\* this.configData = WinboatConfig.readConfigObject()! (line 451)
StartupRead ==
    /\ startPc = "init"
    /\ cfgResult.path = "none"
    /\ ReadConfigObject(TRUE)

\* The rest of the WinboatConfig constructor. The two versionData assignments go
\* through the nested object and write nothing; the guestArch and schemaVersion
\* assignments are top-level sets of the proxy, each writing the whole configData.
WinboatConfigNew ==
    /\ startPc = "init"
    /\ cfgResult.path # "none"
    /\ LET read == cfgResult.config
           versionData == read["versionData"]
           versioned == IF versionData.c # CurrentToken
                           THEN Set(read, "versionData", VersionObj(versionData.c, CurrentToken))
                           ELSE read
           preferredGuestArch == getPreferredGuestArchitecture(versioned["containerRuntime"].s)
           archStale == versioned["guestArch"] # Str(preferredGuestArch)
           arched == IF archStale THEN Set(versioned, "guestArch", Str(preferredGuestArch))
                     ELSE versioned
           schemaStale == arched["schemaVersion"].n < CONFIG_SCHEMA_VERSION
           final == IF schemaStale THEN Set(arched, "schemaVersion", Num(CONFIG_SCHEMA_VERSION))
                    ELSE arched
       IN /\ wbConfigData' = final
          /\ cfgFile' = IF archStale \/ schemaStale THEN ObjectFile(Serialize(final)) ELSE cfgFile
    /\ startPc' = "config"
    /\ UNCHANGED <<containerMgr, cfgBackups, cfgInput, cfgArg, cfgResult, cfgLog>>
    /\ UNCHANGED nonStartup

\* The Winboat constructor, lines 288-300: an unsupported configured runtime is replaced
\* by supportedRuntimes[0] ?? RuntimeKinds.DOCKER through the proxy, then the manager
\* is created for config.containerRuntime.
WinboatNewKeepUnsupported ==
    /\ startPc = "config"
    /\ containerMgr' = createRuntime(wbConfigData["containerRuntime"].s)
    /\ startPc' = "ready"
    /\ UNCHANGED <<wbConfigData, cvars>>
    /\ UNCHANGED nonStartup

WinboatNew ==
    /\ startPc = "config"
    /\ LET configuredRuntime == wbConfigData["containerRuntime"].s
           supportedRuntimes == getSupportedRuntimeKinds
           fallbackRuntime == IF Len(supportedRuntimes) > 0 THEN supportedRuntimes[1] ELSE DOCKER
           final == IF ~Includes(supportedRuntimes, configuredRuntime)
                       THEN Set(wbConfigData, "containerRuntime", Str(fallbackRuntime))
                       ELSE wbConfigData
       IN /\ wbConfigData' = final
          /\ cfgFile' = IF ~Includes(supportedRuntimes, configuredRuntime)
                           THEN ObjectFile(Serialize(final)) ELSE cfgFile
          /\ containerMgr' = createRuntime(final["containerRuntime"].s)
    /\ startPc' = "ready"
    /\ UNCHANGED <<cfgBackups, cfgInput, cfgArg, cfgResult, cfgLog>>
    /\ UNCHANGED nonStartup

\* ------------------------------------------------------------------------
\* Pause, unpause and status of the native backend: src/unnamed/part_004 148-171,
\* 213-220. A stopped process still takes signal 0, so pidIsAlive holds for it.
\* ------------------------------------------------------------------------
NoStatus == "none"

\* container("pause"), lines 160-164: SIGSTOP to the PID of the file when it is alive
ContainerPause ==
    /\ stopped' = IF ReadPid # 0 /\ pidIsAlive(ReadPid) THEN stopped \cup {ReadPid} ELSE stopped
    /\ statusOp' = "pause"
    /\ UNCHANGED <<statusSeen, nvars>>
    /\ UNCHANGED nonPause

\* container("unpause"), lines 165-169: SIGCONT to the PID of the file when it is alive
ContainerUnpause ==
    /\ statusOp = "pause" \/ stopped # {}
    /\ stopped' = IF ReadPid # 0 /\ pidIsAlive(ReadPid) THEN stopped \ {ReadPid} ELSE stopped
    /\ statusOp' = "unpause"
    /\ UNCHANGED <<statusSeen, nvars>>
    /\ UNCHANGED nonPause

\* getStatus(), lines 213-220
NativeStatusCall ==
    /\ statusOp # "getStatus"
    /\ statusSeen' = NativeGetStatus
    /\ statusOp' = "getStatus"
    /\ UNCHANGED <<stopped, nvars>>
    /\ UNCHANGED nonPause

\* a process ends, stopped or not (SIGKILL ends a stopped process too)
PauseProcExits ==
    /\ \E p \in alive :
          /\ alive' = alive \ {p}
          /\ stopped' = stopped \ {p}
    /\ statusOp' = "exit"
    /\ UNCHANGED <<statusSeen, pidFile, nativePc, stopPid, elapsed, termSent, killSent, spawnCount, calls, invoked, hist, nativePorts, prereqs, varsFile, diskImage, startError>>
    /\ UNCHANGED nonPause

\* ------------------------------------------------------------------------
\* Two calls of getRuntimeCapabilities(runtime, hostProfile) with the host profile
\* given by the caller: src/src/renderer/lib/containers/common.ts 164-215
\* ------------------------------------------------------------------------
\* the host profiles a caller can pass: the profile of every host of the model
HostProfileOf(platform, arch) ==
    [isLinux |-> platform = "linux",
     isMacOS |-> platform = "darwin",
     isAppleSilicon |-> platform = "darwin" /\ arch = "arm64"]

HostProfiles == {HostProfileOf(platform, arch) : platform \in HostPlatforms, arch \in HostArchs}

\* the values of the two environment variables in this part of the model
ResolverTokens == {Unset, "1", "0"}

NoResolveCall == [asked |-> FALSE, runtime |-> DOCKER, hostProfile |-> HostProfileOf("linux", "x64"),
                  result |-> NoCapabilities]

ResolveCallOf(runtime, hostProfile) ==
    [asked |-> TRUE, runtime |-> runtime, hostProfile |-> hostProfile,
     result |-> getRuntimeCapabilities(runtime, hostProfile)]

\* getRuntimeCapabilities(runtime, hostProfile): the call changes nothing but its result
ResolveCall(runtime, hostProfile) ==
    /\ ~resolveSecond.asked
    /\ IF ~resolveFirst.asked
          THEN /\ resolveFirst' = ResolveCallOf(runtime, hostProfile)
               /\ UNCHANGED resolveSecond
          ELSE /\ resolveSecond' = ResolveCallOf(runtime, hostProfile)
               /\ UNCHANGED resolveFirst
    /\ UNCHANGED kvars
    /\ UNCHANGED nonResolver

\* The next call is made in another process of the program: another launch, with other
\* values of the environment variables, on this or another host.
OtherProcess ==
    /\ resolveFirst.asked
    /\ ~resolveSecond.asked
    /\ hostPlatform' \in HostPlatforms
    /\ hostArch' \in HostArchs
    /\ envCanonical' \in ResolverTokens
    /\ envLegacy' \in ResolverTokens
    /\ <<hostPlatform', hostArch', envCanonical', envLegacy'>> # <<hostPlatform, hostArch, envCanonical, envLegacy>>
    /\ UNCHANGED <<capResult, kindsResult, resolveFirst, resolveSecond>>
    /\ UNCHANGED nonResolver

\* ------------------------------------------------------------------------
\* The hypervisor's argument vector: #buildQemuArgs and #extractHostForwardTokens,
\* src/unnamed/part_004 271-329
\* ------------------------------------------------------------------------
\* the -qmp argument: tcp:127.0.0.1:7149,server,wait=off (line 300)
QmpListenPort == 7149

\* CommonPorts.QMP (containers/common.ts line 31)
CommonPortsQMP == 7149

NoHostFwd == [started |-> FALSE, rules |-> <<>>]

\* #extractHostForwardTokens: one rule per short token whose host and container are
\* numbers; long-form entries, ranges and NaN hosts give no rule
RECURSIVE extractHostForwardTokens(_)
extractHostForwardTokens(ports) ==
    IF ports = <<>> THEN <<>>
    ELSE LET mapping == Head(ports)
             rest == extractHostForwardTokens(Tail(ports))
             entry == ComposePortEntry(mapping)
         IN IF mapping.form # "short" THEN rest
            ELSE IF entry.host.kind # "number" \/ entry.host.lo = 0 THEN rest
            ELSE <<entry>> \o rest

\* #startVM builds the argument vector from the descriptor and spawns the hypervisor
SpawnHypervisor ==
    /\ ~hostFwd.started
    /\ hostFwd' = [started |-> TRUE, rules |-> extractHostForwardTokens(portSource)]
    /\ qmpListen' = QmpListenPort
    /\ UNCHANGED pvars
    /\ UNCHANGED nonForward

\* ------------------------------------------------------------------------
\* Container actions of the supervisor: startContainer, stopContainer,
\* restartContainer, pauseContainer, unpauseContainer and replaceCompose,
\* src/unnamed/part_003 520-614
\* ------------------------------------------------------------------------
MaxActions == 3

ContainerMethods == {"startContainer", "stopContainer", "restartContainer", "pauseContainer",
                     "unpauseContainer"}

ActionFinished == actionPc \in {"idle", "returned", "threw"}

\* one of the five methods is called: the flag is set and containerMgr.container(action)
\* is awaited
ContainerActionCall(method) ==
    /\ ActionFinished
    /\ actionCalls < MaxActions
    /\ actionCalls' = actionCalls + 1
    /\ actionName' = method
    /\ containerActionLoading' = TRUE
    /\ actionPc' = "container"
    /\ UNCHANGED actionSawRunning
    /\ UNCHANGED nonAction

\* containerMgr.container(action) resolves: the flag is cleared and the method returns
ContainerActionResolves ==
    /\ actionPc = "container"
    /\ containerActionLoading' = FALSE
    /\ actionPc' = "returned"
    /\ UNCHANGED <<actionName, actionSawRunning, actionCalls>>
    /\ UNCHANGED nonAction

\* containerMgr.container(action) rejects: startContainer and restartContainer log and
\* rethrow, the other three have no handler; none has a finally
ContainerActionRejects ==
    /\ actionPc = "container"
    /\ actionPc' = "threw"
    /\ UNCHANGED <<actionName, containerActionLoading, actionSawRunning, actionCalls>>
    /\ UNCHANGED nonAction

\* replaceCompose up to its first await (lines 577-590): stopContainer() when the
\* status is RUNNING, compose("down") otherwise
ReplaceComposeCall(running) ==
    /\ ActionFinished
    /\ actionCalls < MaxActions
    /\ actionCalls' = actionCalls + 1
    /\ actionName' = "replaceCompose"
    /\ containerActionLoading' = TRUE
    /\ actionSawRunning' = running
    /\ actionPc' = IF running THEN "stop" ELSE "down"
    /\ UNCHANGED nonAction

\* the inner stopContainer() returns, having cleared the flag (line 539), or throws
ReplaceComposeStopDone ==
    /\ actionPc = "stop"
    /\ \/ /\ containerActionLoading' = FALSE
          /\ actionPc' = "down"
       \/ /\ actionPc' = "threw"
          /\ UNCHANGED containerActionLoading
    /\ UNCHANGED <<actionName, actionSawRunning, actionCalls>>
    /\ UNCHANGED nonAction

\* compose("down") resolves or rejects
ReplaceComposeDownDone ==
    /\ actionPc = "down"
    /\ actionPc' \in {"files", "threw"}
    /\ UNCHANGED <<actionName, containerActionLoading, actionSawRunning, actionCalls>>
    /\ UNCHANGED nonAction

\* the backup directory, renameSync and writeCompose (lines 593-606); each can throw
ReplaceComposeFilesDone ==
    /\ actionPc = "files"
    /\ actionPc' \in {"up", "threw"}
    /\ UNCHANGED <<actionName, containerActionLoading, actionSawRunning, actionCalls>>
    /\ UNCHANGED nonAction

\* compose("up") resolves, the flag is cleared and replaceCompose returns; or it rejects
ReplaceComposeUpDone ==
    /\ actionPc = "up"
    /\ \/ /\ containerActionLoading' = FALSE
          /\ actionPc' = "returned"
       \/ /\ actionPc' = "threw"
          /\ UNCHANGED containerActionLoading
    /\ UNCHANGED <<actionName, actionSawRunning, actionCalls>>
    /\ UNCHANGED nonAction

\* ------------------------------------------------------------------------
\* The guest API intervals and the flags they keep: createAPIIntervals and
\* destroyAPIIntervals, src/unnamed/part_003 325-442
\* ------------------------------------------------------------------------
intervalFlags == <<healthTimer, rdpTimer, isOnline, rdpConnected, healthReq, rdpReq, tornDown>>

\* the polling tick observes RUNNING: createAPIIntervals sets the intervals
ObserveRunning ==
    /\ instanceUp
    /\ ~observedRunning
    /\ observedRunning' = TRUE
    /\ healthTimer' = TRUE
    /\ rdpTimer' = TRUE
    /\ tornDown' = FALSE
    /\ UNCHANGED <<instanceUp, guestUp, isOnline, rdpConnected, healthReq, rdpReq, rdpMonitoringEnabled>>
    /\ UNCHANGED nonIntervals

\* The polling tick observes another status: destroyAPIIntervals clears the intervals
\* that are set and, with them, the two flags (lines 407-424). The requests of
\* callbacks that already run are not touched.
ObserveNotRunning ==
    /\ ~instanceUp
    /\ observedRunning
    /\ observedRunning' = FALSE
    /\ healthTimer' = FALSE
    /\ rdpTimer' = FALSE
    /\ isOnline' = (IF healthTimer THEN FALSE ELSE isOnline)
    /\ rdpConnected' = (IF rdpTimer THEN FALSE ELSE rdpConnected)
    /\ tornDown' = TRUE
    /\ UNCHANGED <<instanceUp, guestUp, healthReq, rdpReq, rdpMonitoringEnabled>>
    /\ UNCHANGED nonIntervals

\* the health interval fires: the callback sends GET /health (line 339)
HealthFires ==
    /\ healthTimer
    /\ healthReq = "none"
    /\ healthReq' = (IF guestUp THEN "up" ELSE "down")
    /\ UNCHANGED <<instanceUp, guestUp, observedRunning, healthTimer, rdpTimer, isOnline,
                   rdpConnected, rdpReq, rdpMonitoringEnabled, tornDown>>
    /\ UNCHANGED nonIntervals

\* getHealth() resolves: true only when a guest that was up answered 200 before the
\* 1000 ms timeout; the callback stores the answer when it differs (lines 340-341)
HealthReturns ==
    /\ healthReq # "none"
    /\ \E _isOnline \in (IF healthReq = "up" THEN BOOLEAN ELSE {FALSE}) :
          isOnline' = _isOnline
    /\ healthReq' = "none"
    /\ UNCHANGED <<instanceUp, guestUp, observedRunning, healthTimer, rdpTimer, rdpConnected,
                   rdpReq, rdpMonitoringEnabled, tornDown>>
    /\ UNCHANGED nonIntervals

\* the RDP-status interval fires (lines 366-376): nothing while the guest is offline,
\* rdpConnected = false when monitoring is disabled, else GET /rdp/status is sent
RdpFires ==
    /\ rdpTimer
    /\ rdpReq = "none"
    /\ isOnline
    /\ IF rdpMonitoringEnabled
          THEN /\ rdpReq' = (IF guestUp THEN "up" ELSE "down")
               /\ UNCHANGED rdpConnected
          ELSE /\ rdpConnected' = FALSE
               /\ UNCHANGED rdpReq
    /\ UNCHANGED <<instanceUp, guestUp, observedRunning, healthTimer, rdpTimer, isOnline,
                   healthReq, rdpMonitoringEnabled, tornDown>>
    /\ UNCHANGED nonIntervals

\* getRDPConnectedStatus() resolves with the guest's answer and the callback stores it
\* (lines 379-382), or rejects and the callback ends
RdpReturns ==
    /\ rdpReq # "none"
    /\ \/ /\ rdpReq = "up"
          /\ rdpConnected' \in BOOLEAN
       \/ UNCHANGED rdpConnected
    /\ rdpReq' = "none"
    /\ UNCHANGED <<instanceUp, guestUp, observedRunning, healthTimer, rdpTimer, isOnline,
                   healthReq, rdpMonitoringEnabled, tornDown>>
    /\ UNCHANGED nonIntervals

\* the instance starts; the guest server comes up in it; the instance stops
InstanceStarts ==
    /\ ~instanceUp
    /\ ~observedRunning
    /\ instanceUp' = TRUE
    /\ UNCHANGED <<guestUp, observedRunning, rdpMonitoringEnabled>>
    /\ UNCHANGED intervalFlags
    /\ UNCHANGED nonIntervals

GuestComesUp ==
    /\ instanceUp
    /\ ~guestUp
    /\ guestUp' = TRUE
    /\ UNCHANGED <<instanceUp, observedRunning, rdpMonitoringEnabled>>
    /\ UNCHANGED intervalFlags
    /\ UNCHANGED nonIntervals

InstanceStops ==
    /\ instanceUp
    /\ observedRunning
    /\ instanceUp' = FALSE
    /\ guestUp' = FALSE
    /\ UNCHANGED <<observedRunning, rdpMonitoringEnabled>>
    /\ UNCHANGED intervalFlags
    /\ UNCHANGED nonIntervals

\* ------------------------------------------------------------------------
\* exists() of the backends: src/unnamed/part_004 222-224, docker.ts 135-147
\* (isInstalled of install.ts 330-339 returns it)
\* ------------------------------------------------------------------------
NoExists == [asked |-> FALSE, backend |-> "none", afterRemove |-> FALSE, value |-> FALSE]

\* QemuNativeContainer.exists: fs.existsSync(this.composeFilePath)
NativeExistsResult == nativeCompose

\* DockerContainer.exists / PodmanContainer.exists: the name is in the output of
\* `ps -a --filter name=...`; false when the command fails
EngineExistsResult(psFailed) == IF psFailed THEN FALSE ELSE enginePresent

\* the last call of the native backend was a remove() that has returned, of an instance
\* that existed and was not running
NativeRemovedStopped ==
    /\ nativePc = "idle"
    /\ Len(hist) > 0
    /\ hist[Len(hist)].op = "remove"
    /\ hist[Len(hist)].result \in {"noop", "gone"}

\* the last remove() of the engine found the container and its rm command succeeded
EngineRemovedStopped ==
    /\ Len(removeLog) > 0
    /\ removeLog[Len(removeLog)].present
    /\ ~enginePresent

NativeExists ==
    /\ nativePc = "idle"
    /\ existsSeen' = [asked |-> TRUE, backend |-> QEMU_NATIVE,
                      afterRemove |-> NativeRemovedStopped /\ nativeCompose,
                      value |-> NativeExistsResult]
    /\ UNCHANGED <<nativeCompose, nvars, svars>>
    /\ UNCHANGED nonExists

EngineExists ==
    /\ \E psFailed \in BOOLEAN :
          existsSeen' = [asked |-> TRUE, backend |-> engineKind,
                         afterRemove |-> EngineRemovedStopped,
                         value |-> EngineExistsResult(psFailed)]
    /\ UNCHANGED <<nativeCompose, nvars, svars>>
    /\ UNCHANGED nonExists

\* ------------------------------------------------------------------------
\* InstallManager.install: src/src/renderer/lib/install.ts
\* ------------------------------------------------------------------------
MaxAttempts == 4

InstallSteps == <<"CREATING_COMPOSE_FILE", "CREATING_OEM", "STARTING_CONTAINER",
                  "MONITORING_PREINSTALL", "INSTALLING_WINDOWS">>

PreinstallMsgs == {"Downloading", "Extracting"}

\* changeState (lines 50-54): the state is stored and stateChanged is emitted
changeState(newState) ==
    /\ instState' = newState
    /\ instEvents' = Append(instEvents, newState)

\* the catch of install() (lines 318-323): INSTALL_ERROR, and install() returns
InstallCatch ==
    /\ changeState("INSTALL_ERROR")
    /\ instPc' = "done"

\* install() up to the end of createComposeFile (lines 67-80): the state changes, then
\* the directories are made, which can throw
InstallCall ==
    /\ instPc = "idle"
    /\ \/ /\ changeState("CREATING_COMPOSE_FILE")
          /\ instPc' = "oem"
       \/ /\ instState' = "INSTALL_ERROR"
          /\ instEvents' = instEvents \o <<"CREATING_COMPOSE_FILE", "INSTALL_ERROR">>
          /\ instPc' = "done"
    /\ UNCHANGED <<instHealthy, instAttempts, preinstallMsg>>
    /\ UNCHANGED nonInstall

\* createOEMAssets enters its state
CreateOEMAssets ==
    /\ instPc = "oem"
    /\ changeState("CREATING_OEM")
    /\ instPc' = "oem_work"
    /\ UNCHANGED <<instHealthy, instAttempts, preinstallMsg>>
    /\ UNCHANGED nonInstall

\* the copies and the password hash are done, or one of them throws
CreateOEMAssetsDone ==
    /\ instPc = "oem_work"
    /\ \/ /\ instPc' = "start"
          /\ UNCHANGED <<instState, instEvents>>
       \/ InstallCatch
    /\ UNCHANGED <<instHealthy, instAttempts, preinstallMsg>>
    /\ UNCHANGED nonInstall

\* startContainer enters its state and awaits compose("up")
StartContainer ==
    /\ instPc = "start"
    /\ changeState("STARTING_CONTAINER")
    /\ instPc' = "start_work"
    /\ UNCHANGED <<instHealthy, instAttempts, preinstallMsg>>
    /\ UNCHANGED nonInstall

\* compose("up") and port() resolve, or one of them rejects
StartContainerDone ==
    /\ instPc = "start_work"
    /\ \/ /\ instPc' = "preinstall"
          /\ UNCHANGED <<instState, instEvents>>
       \/ InstallCatch
    /\ UNCHANGED <<instHealthy, instAttempts, preinstallMsg>>
    /\ UNCHANGED nonInstall

\* monitorContainerPreinstall after its first sleep: the state changes and the loop starts
MonitorContainerPreinstall ==
    /\ instPc = "preinstall"
    /\ changeState("MONITORING_PREINSTALL")
    /\ instPc' = "preinstall_loop"
    /\ UNCHANGED <<instHealthy, instAttempts, preinstallMsg>>
    /\ UNCHANGED nonInstall

\* one turn of the loop: a message is shown, a 404 ends the method, another error is
\* thrown on
PreinstallTurn ==
    /\ instPc = "preinstall_loop"
    /\ \/ /\ \E msg \in PreinstallMsgs :
                /\ msg # preinstallMsg
                /\ preinstallMsg' = msg
          /\ UNCHANGED <<instPc, instState, instEvents>>
       \/ /\ instPc' = "health"
          /\ UNCHANGED <<instState, instEvents, preinstallMsg>>
       \/ /\ InstallCatch
          /\ UNCHANGED preinstallMsg
    /\ UNCHANGED <<instHealthy, instAttempts>>
    /\ UNCHANGED nonInstall

\* monitorAPIHealth enters its state (line 262)
MonitorAPIHealth ==
    /\ instPc = "health"
    /\ changeState("INSTALLING_WINDOWS")
    /\ instPc' = "health_loop"
    /\ UNCHANGED <<instHealthy, instAttempts, preinstallMsg>>
    /\ UNCHANGED nonInstall

\* One turn of the loop of monitorAPIHealth (lines 267-305). On status 200 the state
\* changes to COMPLETED and the descriptor is read and rewritten; when that throws, the
\* catch of the loop takes it and the loop goes on. Another status, a timeout or a
\* failed request go on with the loop as well.
HealthTurn ==
    /\ instPc = "health_loop"
    /\ instAttempts < MaxAttempts
    /\ instAttempts' = instAttempts + 1
    /\ \/ /\ instHealthy' = TRUE
          /\ changeState("COMPLETED")
          /\ instPc' \in {"returned", "health_loop"}
       \/ UNCHANGED <<instHealthy, instState, instEvents, instPc>>
    /\ UNCHANGED preinstallMsg
    /\ UNCHANGED nonInstall

\* monitorAPIHealth has returned: install() changes the state to COMPLETED (line 324)
InstallCompleted ==
    /\ instPc = "returned"
    /\ changeState("COMPLETED")
    /\ instPc' = "done"
    /\ UNCHANGED <<instHealthy, instAttempts, preinstallMsg>>
    /\ UNCHANGED nonInstall

\* ------------------------------------------------------------------------
\* Specifications
\* ------------------------------------------------------------------------
NativeIdle ==
    /\ pidFile = NoPidFile
    /\ alive = {}
    /\ nativePc = "idle"
    /\ stopPid = 0
    /\ elapsed = 0
    /\ termSent = FALSE
    /\ killSent = FALSE
    /\ spawnCount = 0
    /\ calls = 0
    /\ invoked = "none"
    /\ hist = <<>>
    /\ nativePorts = FALSE
    /\ prereqs = AllPrerequisites
    /\ varsFile = FALSE
    /\ diskImage = FALSE
    /\ startError = "none"

StatusIdle ==
    /\ engineKind = "Docker"
    /\ engineStdout = [word |-> "exited", newline |-> FALSE]
    /\ inspectFails = FALSE
    /\ statusInput = [stdout |-> [word |-> "exited", newline |-> FALSE], failed |-> FALSE]
    /\ statusResult = "none"
    /\ enginePresent = FALSE
    /\ removeLog = <<>>

ConfigIdle ==
    /\ cfgFile = AbsentFile
    /\ cfgBackups = {}
    /\ cfgInput = AbsentFile
    /\ cfgArg = TRUE
    /\ cfgResult = NoResult
    /\ cfgLog = <<>>

SupervisorIdle ==
    /\ runtimeStatus = "EXITED"
    /\ runEpoch = 0
    /\ containerStatus = "EXITED"
    /\ pollPc = [t \in TickIds |-> "idle"]
    /\ pollArg = [t \in TickIds |-> 0]
    /\ overlapped = FALSE
    /\ portCache = 0
    /\ runningTick = 0
    /\ portRefreshed = FALSE
    /\ experimentalFeatures = FALSE
    /\ healthInterval = FALSE
    /\ qmpInterval = FALSE
    /\ qmpPc = [i \in QmpTickIds |-> QmpOff]
    /\ qmpMgr = 0
    /\ sockets = <<>>
    /\ qmpAttempt = NoAttempt

CapabilitiesIdle ==
    /\ hostPlatform = "linux"
    /\ hostArch = "x64"
    /\ envCanonical = Unset
    /\ envLegacy = Unset
    /\ capResult = NoCapabilities
    /\ kindsResult = NoKinds

PortsIdle ==
    /\ portBackend = DOCKER
    /\ portSource = <<>>
    /\ cachedPortMappings = NoPortCache
    /\ portQuery = NoPortQuery

HandshakeIdle ==
    /\ hsMgr = 0
    /\ hsPc = [i \in HsCallbacks |-> HsOff]
    /\ hsLog = <<>>
    /\ hsConfirmed = {}

OwnerIdle ==
    /\ configData = [scale |-> 100, rdpArgs |-> <<>>,
                     versionData |-> [previous |-> "0.9.0", current |-> "0.9.0"]]
    /\ configOnDisk = configData
    /\ lastMutation = "none"

DescriptorIdle ==
    /\ descFile = AbsentDescriptor
    /\ descBackups = {}
    /\ descPc = "idle"
    /\ descOp = NoDescOp
    /\ descWrites = 0

GuestIdle ==
    /\ guest = "answers"
    /\ guPc = "idle"
    /\ isUpdatingGuestServer = FALSE
    /\ guVersionSame = TRUE
    /\ guReportedArch = "amd64"
    /\ guConfiguredArch = "amd64"
    /\ guZipExists = TRUE

StartupIdle ==
    /\ startPc = "init"
    /\ wbConfigData = <<>>
    /\ containerMgr = NoManager

PauseIdle ==
    /\ stopped = {}
    /\ statusOp = "none"
    /\ statusSeen = NoStatus

ResolverIdle ==
    /\ resolveFirst = NoResolveCall
    /\ resolveSecond = NoResolveCall

ForwardIdle ==
    /\ hostFwd = NoHostFwd
    /\ qmpListen = 0

ActionIdle ==
    /\ actionName = "none"
    /\ actionPc = "idle"
    /\ containerActionLoading = FALSE
    /\ actionSawRunning = FALSE
    /\ actionCalls = 0

IntervalsIdle ==
    /\ instanceUp = FALSE
    /\ guestUp = FALSE
    /\ observedRunning = FALSE
    /\ healthTimer = FALSE
    /\ rdpTimer = FALSE
    /\ isOnline = FALSE
    /\ rdpConnected = FALSE
    /\ healthReq = "none"
    /\ rdpReq = "none"
    /\ rdpMonitoringEnabled = FALSE
    /\ tornDown = FALSE

ExistsIdle ==
    /\ nativeCompose = FALSE
    /\ existsSeen = NoExists

InstallIdle ==
    /\ instPc = "idle"
    /\ instState = "IDLE"
    /\ instEvents = <<>>
    /\ instHealthy = FALSE
    /\ instAttempts = 0
    /\ preinstallMsg = ""

NativeInit ==
    /\ pidFile \in {NoPidFile} \cup {PidFileOf(c) : c \in 0..MaxPid}
    /\ alive \in SUBSET Pids
    /\ nativePc = "idle"
    /\ stopPid = 0
    /\ elapsed = 0
    /\ termSent = FALSE
    /\ killSent = FALSE
    /\ spawnCount = 0
    /\ calls = 0
    /\ invoked = "none"
    /\ hist = <<>>
    /\ nativePorts = FALSE
    /\ prereqs \in SUBSET AllPrerequisites
    /\ varsFile \in BOOLEAN
    /\ diskImage = varsFile
    /\ startError = "none"
    /\ StatusIdle
    /\ ConfigIdle
    /\ SupervisorIdle
    /\ CapabilitiesIdle
    /\ PortsIdle
    /\ HandshakeIdle
    /\ OwnerIdle
    /\ DescriptorIdle
    /\ GuestIdle
    /\ StartupIdle
    /\ PauseIdle
    /\ ResolverIdle
    /\ ForwardIdle
    /\ ActionIdle
    /\ IntervalsIdle
    /\ ExistsIdle
    /\ InstallIdle

NativeNext ==
    \/ StartCall
    \/ StartPrereqMissing
    \/ StartSpawn
    \/ StartSpawnFails
    \/ StartSpawnThrows
    \/ StopCall
    \/ RemoveCall
    \/ StopSleep
    \/ StopLoopExit
    \/ StopKill
    \/ ProcExits

SpecNative == NativeInit /\ [][NativeNext]_vars

StatusInit ==
    /\ engineKind \in {"Docker", "Podman"}
    /\ engineStdout \in Stdouts(engineKind)
    /\ inspectFails \in BOOLEAN
    /\ statusInput = [stdout |-> engineStdout, failed |-> inspectFails]
    /\ statusResult = "none"
    /\ enginePresent = FALSE
    /\ removeLog = <<>>
    /\ NativeIdle
    /\ ConfigIdle
    /\ SupervisorIdle
    /\ CapabilitiesIdle
    /\ PortsIdle
    /\ HandshakeIdle
    /\ OwnerIdle
    /\ DescriptorIdle
    /\ GuestIdle
    /\ StartupIdle
    /\ PauseIdle
    /\ ResolverIdle
    /\ ForwardIdle
    /\ ActionIdle
    /\ IntervalsIdle
    /\ ExistsIdle
    /\ InstallIdle

StatusNext == EngineMoves \/ GetStatusCall

SpecStatus == StatusInit /\ [][StatusNext]_vars

\* remove() of the three backends, on instances present and absent
RemoveInit ==
    /\ pidFile \in {NoPidFile} \cup {PidFileOf(c) : c \in 0..MaxPid}
    /\ alive \in SUBSET Pids
    /\ nativePc = "idle"
    /\ stopPid = 0
    /\ elapsed = 0
    /\ termSent = FALSE
    /\ killSent = FALSE
    /\ spawnCount = 0
    /\ calls = 0
    /\ invoked = "none"
    /\ hist = <<>>
    /\ nativePorts = FALSE
    /\ prereqs = AllPrerequisites
    /\ varsFile = FALSE
    /\ diskImage = FALSE
    /\ startError = "none"
    /\ engineKind \in {"Docker", "Podman"}
    /\ engineStdout = [word |-> "exited", newline |-> FALSE]
    /\ inspectFails = FALSE
    /\ statusInput = [stdout |-> engineStdout, failed |-> inspectFails]
    /\ statusResult = "none"
    /\ enginePresent \in BOOLEAN
    /\ removeLog = <<>>
    /\ ConfigIdle
    /\ SupervisorIdle
    /\ CapabilitiesIdle
    /\ PortsIdle
    /\ HandshakeIdle
    /\ OwnerIdle
    /\ DescriptorIdle
    /\ GuestIdle
    /\ StartupIdle
    /\ PauseIdle
    /\ ResolverIdle
    /\ ForwardIdle
    /\ ActionIdle
    /\ IntervalsIdle
    /\ ExistsIdle
    /\ InstallIdle

RemoveNext ==
    \/ EngineRemove
    \/ RemoveCall
    \/ StopSleep
    \/ StopLoopExit
    \/ StopKill
    \/ ProcExits

SpecRemove == RemoveInit /\ [][RemoveNext]_vars

ConfigInit ==
    /\ cfgFile \in InputFiles
    /\ cfgBackups = {}
    /\ cfgInput = cfgFile
    /\ cfgArg = TRUE
    /\ cfgResult = NoResult
    /\ cfgLog = <<>>
    /\ NativeIdle
    /\ StatusIdle
    /\ SupervisorIdle
    /\ CapabilitiesIdle
    /\ PortsIdle
    /\ HandshakeIdle
    /\ OwnerIdle
    /\ DescriptorIdle
    /\ GuestIdle
    /\ StartupIdle
    /\ PauseIdle
    /\ ResolverIdle
    /\ ForwardIdle
    /\ ActionIdle
    /\ IntervalsIdle
    /\ ExistsIdle
    /\ InstallIdle

ConfigNext == ReadConfig

SpecConfig == ConfigInit /\ [][ConfigNext]_vars

\* the supervisor is constructed with containerStatus = EXITED, whatever the instance does
SupervisorInit ==
    /\ runtimeStatus \in {"RUNNING", "EXITED"}
    /\ runEpoch = (IF runtimeStatus = "RUNNING" THEN 1 ELSE 0)
    /\ containerStatus = "EXITED"
    /\ pollPc = [t \in TickIds |-> "idle"]
    /\ pollArg = [t \in TickIds |-> 0]
    /\ overlapped = FALSE
    /\ portCache = 0
    /\ runningTick = 0
    /\ portRefreshed = FALSE
    /\ experimentalFeatures \in BOOLEAN
    /\ healthInterval = FALSE
    /\ qmpInterval = FALSE
    /\ qmpPc = [i \in QmpTickIds |-> QmpOff]
    /\ qmpMgr = 0
    /\ sockets = <<>>
    /\ qmpAttempt = NoAttempt
    /\ NativeIdle
    /\ StatusIdle
    /\ ConfigIdle
    /\ CapabilitiesIdle
    /\ PortsIdle
    /\ HandshakeIdle
    /\ OwnerIdle
    /\ DescriptorIdle
    /\ GuestIdle
    /\ StartupIdle
    /\ PauseIdle
    /\ ResolverIdle
    /\ ForwardIdle
    /\ ActionIdle
    /\ IntervalsIdle
    /\ ExistsIdle
    /\ InstallIdle

SupervisorNext ==
    \/ \E t \in TickIds : PollFire(t)
    \/ \E t \in TickIds : PollGetStatus(t)
    \/ \E t \in TickIds : PollPortDone(t)
    \/ \E t \in TickIds : PollPortThrows(t)
    \/ \E t \in TickIds : PollCreate(t)
    \/ \E t \in TickIds : PollDestroy(t)
    \/ \E t \in TickIds : PollDestroyProbeDone(t)
    \/ ToggleExperimentalFeatures
    \/ \E i \in QmpTickIds : QMPIntervalFires(i)
    \/ \E i \in QmpTickIds : QMPProbeDone(i)
    \/ \E i \in QmpTickIds : QMPConnectDone(i)
    \/ \E i \in QmpTickIds : QMPConnectFails(i)
    \/ RuntimeStarts
    \/ RuntimeStops

SpecSupervisor == SupervisorInit /\ [][SupervisorNext]_vars

\* every host and every value of the two environment variables
CapabilitiesInit ==
    /\ hostPlatform \in HostPlatforms
    /\ hostArch \in HostArchs
    /\ envCanonical \in FlagTokens
    /\ envLegacy \in FlagTokens
    /\ capResult = NoCapabilities
    /\ kindsResult = NoKinds
    /\ NativeIdle
    /\ StatusIdle
    /\ ConfigIdle
    /\ SupervisorIdle
    /\ PortsIdle
    /\ HandshakeIdle
    /\ OwnerIdle
    /\ DescriptorIdle
    /\ GuestIdle
    /\ StartupIdle
    /\ PauseIdle
    /\ ResolverIdle
    /\ ForwardIdle
    /\ ActionIdle
    /\ IntervalsIdle
    /\ ExistsIdle
    /\ InstallIdle

CapabilitiesNext ==
    \/ \E runtime \in RuntimeKinds : QueryCapabilities(runtime)
    \/ QuerySupportedKinds

SpecCapabilities == CapabilitiesInit /\ [][CapabilitiesNext]_vars

\* every backend, with every short list of reported bindings
PortsInit ==
    /\ portBackend \in RuntimeKinds
    /\ portSource \in (IF portBackend = QEMU_NATIVE
                         THEN SeqsUpTo(DescriptorMappings, MaxMappings)
                         ELSE SeqsUpTo(EngineLines, MaxMappings))
    /\ cachedPortMappings = NoPortCache
    /\ portQuery = NoPortQuery
    /\ NativeIdle
    /\ StatusIdle
    /\ ConfigIdle
    /\ SupervisorIdle
    /\ CapabilitiesIdle
    /\ HandshakeIdle
    /\ OwnerIdle
    /\ DescriptorIdle
    /\ GuestIdle
    /\ StartupIdle
    /\ PauseIdle
    /\ ResolverIdle
    /\ ForwardIdle
    /\ ActionIdle
    /\ IntervalsIdle
    /\ ExistsIdle
    /\ InstallIdle

PortsNext ==
    \/ PortCall
    \/ \E port \in GuestPorts, protocol \in Protocols : GetActiveHostPortCall(port, protocol)

SpecPorts == PortsInit /\ [][PortsNext]_vars

\* the instance is RUNNING and the QMP interval is set; no connection yet
HandshakeInit ==
    /\ HandshakeIdle
    /\ NativeIdle
    /\ StatusIdle
    /\ ConfigIdle
    /\ SupervisorIdle
    /\ CapabilitiesIdle
    /\ PortsIdle
    /\ OwnerIdle
    /\ DescriptorIdle
    /\ GuestIdle
    /\ StartupIdle
    /\ PauseIdle
    /\ ResolverIdle
    /\ ForwardIdle
    /\ ActionIdle
    /\ IntervalsIdle
    /\ ExistsIdle
    /\ InstallIdle

HandshakeNext ==
    \/ \E i \in HsCallbacks : HsCallbackStart(i)
    \/ \E i \in HsCallbacks : HsProbeDone(i)
    \/ \E i \in HsCallbacks : HsConnected(i)
    \/ \E i \in HsCallbacks : HsConnectFails(i)
    \/ \E i \in HsCallbacks : HsNegotiated(i)
    \/ \E i \in HsCallbacks : HsNegotiationFails(i)
    \/ \E i \in HsCallbacks : HsQueryDone(i)
    \/ HsDestroy

SpecHandshake == HandshakeInit /\ [][HandshakeNext]_vars

\* after readConfigObject the file holds the normalized config the owner keeps
OwnerInit ==
    /\ configData \in OwnerConfigs
    /\ configOnDisk = configData
    /\ lastMutation = "none"
    /\ NativeIdle
    /\ StatusIdle
    /\ ConfigIdle
    /\ SupervisorIdle
    /\ CapabilitiesIdle
    /\ PortsIdle
    /\ HandshakeIdle
    /\ DescriptorIdle
    /\ GuestIdle
    /\ StartupIdle
    /\ PauseIdle
    /\ ResolverIdle
    /\ ForwardIdle
    /\ ActionIdle
    /\ IntervalsIdle
    /\ ExistsIdle
    /\ InstallIdle

OwnerNext ==
    \/ \E value \in Scales : ProxySet("scale", value)
    \/ \E newConfig \in OwnerConfigs : ConfigSetter(newConfig)
    \/ \E arg \in RdpArgs : RdpArgsPush(arg)
    \/ \E index \in 1..MaxRdpArgs : RdpArgsSplice(index)
    \/ \E index \in 1..MaxRdpArgs, text \in RdpArgTexts : RdpArgEdit(index, text)
    \/ \E token \in VersionTokens : VersionDataUpdate(token)

SpecOwner == OwnerInit /\ [][OwnerNext]_vars

\* a fresh installation (no descriptor yet) or an installed one
DescriptorInit ==
    /\ descFile \in {AbsentDescriptor} \cup {CompleteDescriptor(c) : c \in Descriptors}
    /\ descBackups = {}
    /\ descPc = "idle"
    /\ descOp = NoDescOp
    /\ descWrites = 0
    /\ NativeIdle
    /\ StatusIdle
    /\ ConfigIdle
    /\ SupervisorIdle
    /\ CapabilitiesIdle
    /\ PortsIdle
    /\ HandshakeIdle
    /\ OwnerIdle
    /\ GuestIdle
    /\ StartupIdle
    /\ PauseIdle
    /\ ResolverIdle
    /\ ForwardIdle
    /\ ActionIdle
    /\ IntervalsIdle
    /\ ExistsIdle
    /\ InstallIdle

DescriptorNext ==
    \/ \E c \in Descriptors : WriteComposeOpen(c)
    \/ \E c \in Descriptors : ReplaceComposeBackup(c)
    \/ ReplaceComposeOpen
    \/ WriteComposeDone
    \/ Crash

SpecDescriptor == DescriptorInit /\ [][DescriptorNext]_vars

GuestInit ==
    /\ guest \in GuestBehaviours
    /\ guPc = "idle"
    /\ isUpdatingGuestServer = FALSE
    /\ guVersionSame \in BOOLEAN
    /\ guReportedArch \in ReportedArchs
    /\ guConfiguredArch \in {"amd64", "arm64"}
    /\ guZipExists \in BOOLEAN
    /\ NativeIdle
    /\ StatusIdle
    /\ ConfigIdle
    /\ SupervisorIdle
    /\ CapabilitiesIdle
    /\ PortsIdle
    /\ HandshakeIdle
    /\ OwnerIdle
    /\ DescriptorIdle
    /\ StartupIdle
    /\ PauseIdle
    /\ ResolverIdle
    /\ ForwardIdle
    /\ ActionIdle
    /\ IntervalsIdle
    /\ ExistsIdle
    /\ InstallIdle

GuestNext == GuProgramStep \/ GuestChanges

\* every step of the program that can be taken is taken; nothing makes the
\* guest answer
SpecGuestUpdate == GuestInit /\ [][GuestNext]_vars /\ WF_vars(GuProgramStep)

\* every config file of the model without the keys the startup never looks at, on every host
StartupFiles ==
    {f \in InputFiles : f.kind = "object" => ~Has(f.obj, "scale") /\ ~Has(f.obj, "futureOption")}

StartupInit ==
    /\ cfgFile \in StartupFiles
    /\ cfgBackups = {}
    /\ cfgInput = cfgFile
    /\ cfgArg = TRUE
    /\ cfgResult = NoResult
    /\ cfgLog = <<>>
    /\ hostPlatform \in HostPlatforms
    /\ hostArch = "arm64"
    /\ envCanonical = Unset
    /\ envLegacy = Unset
    /\ capResult = NoCapabilities
    /\ kindsResult = NoKinds
    /\ StartupIdle
    /\ NativeIdle
    /\ StatusIdle
    /\ SupervisorIdle
    /\ PortsIdle
    /\ HandshakeIdle
    /\ OwnerIdle
    /\ DescriptorIdle
    /\ GuestIdle
    /\ PauseIdle
    /\ ResolverIdle
    /\ ForwardIdle
    /\ ActionIdle
    /\ IntervalsIdle
    /\ ExistsIdle
    /\ InstallIdle

StartupNext ==
    \/ StartupRead
    \/ WinboatConfigNew
    \/ WinboatNew

SpecStartup == StartupInit /\ [][StartupNext]_vars

\* every PID file (0: no number in it, -1: a number that is not positive) and every set
\* of live processes, nothing stopped yet
PauseInit ==
    /\ pidFile \in {NoPidFile} \cup {PidFileOf(c) : c \in (0 - 1)..MaxPid}
    /\ alive \in SUBSET Pids
    /\ nativePc = "idle"
    /\ stopPid = 0
    /\ elapsed = 0
    /\ termSent = FALSE
    /\ killSent = FALSE
    /\ spawnCount = 0
    /\ calls = 0
    /\ invoked = "none"
    /\ hist = <<>>
    /\ nativePorts = FALSE
    /\ prereqs = AllPrerequisites
    /\ varsFile = FALSE
    /\ diskImage = varsFile
    /\ startError = "none"
    /\ StatusIdle
    /\ ConfigIdle
    /\ SupervisorIdle
    /\ CapabilitiesIdle
    /\ PortsIdle
    /\ HandshakeIdle
    /\ OwnerIdle
    /\ DescriptorIdle
    /\ GuestIdle
    /\ StartupIdle
    /\ PauseIdle
    /\ ResolverIdle
    /\ ForwardIdle
    /\ ActionIdle
    /\ IntervalsIdle
    /\ ExistsIdle
    /\ InstallIdle

PauseNext ==
    \/ ContainerPause
    \/ ContainerUnpause
    \/ NativeStatusCall
    \/ PauseProcExits

SpecPause == PauseInit /\ [][PauseNext]_vars

\* every host, the two environment variables set or not, no call made yet
ResolverInit ==
    /\ hostPlatform \in HostPlatforms
    /\ hostArch \in HostArchs
    /\ envCanonical \in ResolverTokens
    /\ envLegacy \in ResolverTokens
    /\ capResult = NoCapabilities
    /\ kindsResult = NoKinds
    /\ NativeIdle
    /\ StatusIdle
    /\ ConfigIdle
    /\ SupervisorIdle
    /\ PortsIdle
    /\ HandshakeIdle
    /\ OwnerIdle
    /\ DescriptorIdle
    /\ GuestIdle
    /\ StartupIdle
    /\ PauseIdle
    /\ ResolverIdle
    /\ ForwardIdle
    /\ ActionIdle
    /\ IntervalsIdle
    /\ ExistsIdle
    /\ InstallIdle

ResolverNext ==
    \/ \E runtime \in RuntimeKinds, hostProfile \in HostProfiles : ResolveCall(runtime, hostProfile)
    \/ OtherProcess

SpecResolver == ResolverInit /\ [][ResolverNext]_vars

\* the native backend with every short descriptor port table; the hypervisor not started
ForwardInit ==
    /\ portBackend = QEMU_NATIVE
    /\ portSource \in SeqsUpTo(DescriptorMappings, MaxMappings)
    /\ cachedPortMappings = NoPortCache
    /\ portQuery = NoPortQuery
    /\ NativeIdle
    /\ StatusIdle
    /\ ConfigIdle
    /\ SupervisorIdle
    /\ CapabilitiesIdle
    /\ HandshakeIdle
    /\ OwnerIdle
    /\ DescriptorIdle
    /\ GuestIdle
    /\ StartupIdle
    /\ PauseIdle
    /\ ResolverIdle
    /\ ForwardIdle
    /\ ActionIdle
    /\ IntervalsIdle
    /\ ExistsIdle
    /\ InstallIdle

ForwardNext ==
    \/ SpawnHypervisor
    \/ PortCall
    \/ \E port \in GuestPorts, protocol \in Protocols : GetActiveHostPortCall(port, protocol)

SpecForward == ForwardInit /\ [][ForwardNext]_vars

\* containerActionLoading starts false (part_003 line 260)
ActionInit ==
    /\ ActionIdle
    /\ PortsIdle
    /\ NativeIdle
    /\ StatusIdle
    /\ ConfigIdle
    /\ SupervisorIdle
    /\ CapabilitiesIdle
    /\ HandshakeIdle
    /\ OwnerIdle
    /\ DescriptorIdle
    /\ GuestIdle
    /\ StartupIdle
    /\ PauseIdle
    /\ ResolverIdle
    /\ ForwardIdle
    /\ IntervalsIdle
    /\ ExistsIdle
    /\ InstallIdle

ActionNext ==
    \/ \E method \in ContainerMethods : ContainerActionCall(method)
    \/ ContainerActionResolves
    \/ ContainerActionRejects
    \/ \E running \in BOOLEAN : ReplaceComposeCall(running)
    \/ ReplaceComposeStopDone
    \/ ReplaceComposeDownDone
    \/ ReplaceComposeFilesDone
    \/ ReplaceComposeUpDone

SpecAction == ActionInit /\ [][ActionNext]_vars

\* the instance is down and no interval is set; RDP monitoring is enabled or not
IntervalsInit ==
    /\ instanceUp = FALSE
    /\ guestUp = FALSE
    /\ observedRunning = FALSE
    /\ healthTimer = FALSE
    /\ rdpTimer = FALSE
    /\ isOnline = FALSE
    /\ rdpConnected = FALSE
    /\ healthReq = "none"
    /\ rdpReq = "none"
    /\ rdpMonitoringEnabled \in BOOLEAN
    /\ tornDown = FALSE
    /\ ActionIdle
    /\ PortsIdle
    /\ NativeIdle
    /\ StatusIdle
    /\ ConfigIdle
    /\ SupervisorIdle
    /\ CapabilitiesIdle
    /\ HandshakeIdle
    /\ OwnerIdle
    /\ DescriptorIdle
    /\ GuestIdle
    /\ StartupIdle
    /\ PauseIdle
    /\ ResolverIdle
    /\ ForwardIdle
    /\ ExistsIdle
    /\ InstallIdle

IntervalsNext ==
    \/ ObserveRunning
    \/ ObserveNotRunning
    \/ HealthFires
    \/ HealthReturns
    \/ RdpFires
    \/ RdpReturns
    \/ InstanceStarts
    \/ GuestComesUp
    \/ InstanceStops

SpecIntervals == IntervalsInit /\ [][IntervalsNext]_vars

\* as for remove(), with the native descriptor file there or not
ExistsInit ==
    /\ pidFile \in {NoPidFile} \cup {PidFileOf(c) : c \in 0..MaxPid}
    /\ alive \in SUBSET Pids
    /\ nativePc = "idle"
    /\ stopPid = 0
    /\ elapsed = 0
    /\ termSent = FALSE
    /\ killSent = FALSE
    /\ spawnCount = 0
    /\ calls = 0
    /\ invoked = "none"
    /\ hist = <<>>
    /\ nativePorts = FALSE
    /\ prereqs = AllPrerequisites
    /\ varsFile = FALSE
    /\ diskImage = FALSE
    /\ startError = "none"
    /\ engineKind \in {"Docker", "Podman"}
    /\ engineStdout = [word |-> "exited", newline |-> FALSE]
    /\ inspectFails = FALSE
    /\ statusInput = [stdout |-> engineStdout, failed |-> inspectFails]
    /\ statusResult = "none"
    /\ enginePresent \in BOOLEAN
    /\ removeLog = <<>>
    /\ ConfigIdle
    /\ SupervisorIdle
    /\ CapabilitiesIdle
    /\ PortsIdle
    /\ HandshakeIdle
    /\ OwnerIdle
    /\ DescriptorIdle
    /\ GuestIdle
    /\ StartupIdle
    /\ PauseIdle
    /\ ResolverIdle
    /\ ForwardIdle
    /\ ActionIdle
    /\ IntervalsIdle
    /\ nativeCompose \in BOOLEAN
    /\ existsSeen = NoExists
    /\ InstallIdle

ExistsNext ==
    \/ EngineRemove
    \/ RemoveCall
    \/ StopSleep
    \/ StopLoopExit
    \/ StopKill
    \/ ProcExits
    \/ NativeExists
    \/ EngineExists

SpecExists == ExistsInit /\ [][ExistsNext]_vars

\* a new InstallManager (constructor, lines 42-48)
InstallInit ==
    /\ InstallIdle
    /\ ActionIdle
    /\ PortsIdle
    /\ NativeIdle
    /\ StatusIdle
    /\ ConfigIdle
    /\ SupervisorIdle
    /\ CapabilitiesIdle
    /\ HandshakeIdle
    /\ OwnerIdle
    /\ DescriptorIdle
    /\ GuestIdle
    /\ StartupIdle
    /\ PauseIdle
    /\ ResolverIdle
    /\ ForwardIdle
    /\ IntervalsIdle
    /\ ExistsIdle

InstallNext ==
    \/ InstallCall
    \/ CreateOEMAssets
    \/ CreateOEMAssetsDone
    \/ StartContainer
    \/ StartContainerDone
    \/ MonitorContainerPreinstall
    \/ PreinstallTurn
    \/ MonitorAPIHealth
    \/ HealthTurn
    \/ InstallCompleted

SpecInstall == InstallInit /\ [][InstallNext]_vars

\* ------------------------------------------------------------------------
\* Properties of the native backend
\* ------------------------------------------------------------------------
StartInvoked == calls' = calls + 1 /\ invoked' = "start"

\* C1: a start() called right after a start(), with no stop() between and the instance
\* RUNNING, is a no-op: it spawns nothing, leaves the PID file as it is, returns at
\* once, and the status is still RUNNING.
C1_SecondStartIsNoop ==
    [][(StartInvoked /\ nativePc = "idle" /\ Last.op = "start" /\ NativeGetStatus = "RUNNING")
         => /\ spawnCount' = spawnCount
            /\ pidFile' = pidFile
            /\ alive' = alive
            /\ nativePc' = "idle"
            /\ Last' = [op |-> "start", result |-> "noop"]
            /\ NativeGetStatus' = "RUNNING"]_vars

\* C1 witness: the first start() spawned the VM and the second one returned as a no-op
C1_Witness ==
    /\ Prev = [op |-> "start", result |-> "spawned"]
    /\ Last = [op |-> "start", result |-> "noop"]
    /\ spawnCount = 1
    /\ NativeGetStatus = "RUNNING"

StopEndedWithPid ==
    /\ Last.op = "stop"
    /\ Last.result \in {"graceful", "forced", "gone", "kill_threw"}

\* C2: stop() sends the forced kill only once the 5000 ms grace timeout has elapsed with
\* the process still alive, and on every path on which a stop() that read a PID ends
\* (the process exited on SIGTERM, it was force-killed, it was already gone when a signal
\* was sent) the PID file no longer exists.
C2_StopAlwaysRemovesPidFile ==
    /\ (nativePc = "stop_kill" \/ killSent) => (termSent /\ elapsed >= GraceTimeoutMs)
    /\ StopEndedWithPid => ~pidFile.exists

StalePidFile == pidFile.exists /\ ReadPid # 0 /\ ~pidIsAlive(ReadPid)

\* C3: a start() that finds a PID file naming a dead process discards the stale file
\* before it proceeds past the `already running` test, and the process it then spawns
\* has its PID in the PID file.
C3_StaleFileDiscardedBeforeStart ==
    /\ nativePc = "start_prepare" => ~StalePidFile
    /\ Last = [op |-> "start", result |-> "spawned"] => (pidFile.exists /\ ReadPid # 0)

\* C4: every getStatus() of the Docker and Podman backends returns a member of the
\* closed RuntimeStatus set, and UNKNOWN whenever the raw status is no key of the
\* backend's status map (or the inspect command fails).
C4_StatusMappingTotal ==
    statusResult # "none" =>
        /\ statusResult \in RuntimeStatuses
        /\ (statusInput.failed \/ Trim(statusInput.stdout) \notin StatusKeys(engineKind))
              => statusResult = "UNKNOWN"

\* the last start() reached spawn() and the OS could not start the child
SpawnFailed ==
    /\ Last.op = "start"
    /\ \/ Last.result = "resolved_without_child"
       \/ Last.result = "threw" /\ startError = "spawn"

\* C16: when spawning the hypervisor fails, start() rejects with the OS error and the
\* status afterwards is EXITED.
C16_SpawnFailureRejectsStart ==
    SpawnFailed =>
        /\ Last.result = "threw"
        /\ startError = "spawn"
        /\ NativeGetStatus = "EXITED"

\* C17: a start() that finds a prerequisite missing rejects with an error naming a
\* missing prerequisite, and on the way copies no firmware-variables file, creates no
\* disk image, spawns nothing and writes no PID file; the status afterwards is EXITED.
C17_MissingPrerequisiteFailsFast ==
    [][(nativePc = "start_prepare" /\ nativePc' # "start_prepare"
          /\ ~(AllPrerequisites \subseteq prereqs)) =>
          /\ Last' = [op |-> "start", result |-> "threw"]
          /\ startError' \in AllPrerequisites \ prereqs
          /\ UNCHANGED <<varsFile, diskImage, spawnCount, alive, pidFile>>
          /\ NativeGetStatus' = "EXITED"]_vars

\* C17 witness: only the firmware-variables template is missing; start() has rejected
\* naming it, with nothing copied, created, spawned or written
C17_Witness ==
    /\ prereqs = AllPrerequisites \ {"firmware vars"}
    /\ Last = [op |-> "start", result |-> "threw"]
    /\ startError = "firmware vars"
    /\ ~varsFile /\ ~diskImage
    /\ spawnCount = 0
    /\ ~pidFile.exists

RemoveInvoked == calls' = calls + 1 /\ invoked' = "remove"

\* C18: remove() of the Docker and Podman backends returns without throwing whether or
\* not the container is there, and remove() of the native backend called while no
\* instance is there (EXITED) returns in the same step without throwing and leaves no
\* PID file - the first time and every time after.
C18_RemoveIsIdempotent ==
    /\ [](\A n \in DOMAIN removeLog : removeLog[n].result = "returned")
    /\ [][(RemoveInvoked /\ NativeGetStatus = "EXITED") =>
             /\ nativePc' = "idle"
             /\ Last'.op = "remove"
             /\ Last'.result \in {"noop", "gone"}
             /\ ~pidFile'.exists]_vars

\* C18 witness: two remove() calls in a row on an absent container and two on an absent
\* native instance, all returned
C18_Witness ==
    /\ Len(removeLog) >= 2
    /\ ~removeLog[1].present /\ ~removeLog[2].present
    /\ removeLog[1].result = "returned" /\ removeLog[2].result = "returned"
    /\ Prev.op = "remove" /\ Prev.result \in {"noop", "gone"}
    /\ Last = [op |-> "remove", result |-> "noop"]

\* ------------------------------------------------------------------------
\* Properties of the configuration reader
\* ------------------------------------------------------------------------
ReadDone == cfgResult.path # "none"

RequestedRuntime(obj) ==
    LET own == Get(obj, "containerRuntime")
    IN normalizeRuntimeKind(IF own.t \in {"undefined", "null"} THEN FirstLegacyValue(obj) ELSE own,
                            DOCKER)

RuntimeSpellings == {"Docker", "Podman", " PODMAN ", "podman", "QEMU-Native", "QemuNative"}

\* the configs at CONFIG_SCHEMA_VERSION with field values equivalent to those of obj: the
\* same runtime after normalization (in any spelling), the same guestArch, the same
\* remaining fields
EquivalentCurrent(obj) ==
    LET rest == Delete(obj, LegacyKeySet \cup {"containerRuntime", "schemaVersion"})
    IN {Set(Set(rest, "containerRuntime", Str(x)), "schemaVersion", Num(CONFIG_SCHEMA_VERSION)) :
           x \in {y \in RuntimeSpellings : normalizeRuntimeKind(Str(y), DOCKER) = RequestedRuntime(obj)}}

IsVersion0Read ==
    /\ ReadDone
    /\ cfgInput.kind = "object"
    /\ inferSchemaVersion(cfgInput.obj) = 0

\* C6: a version-0 config migrated through v0->v1->v2 and normalized is identical to the
\* config obtained from any config that starts at CONFIG_SCHEMA_VERSION with equivalent
\* field values, and that one is not migrated.
C6_ChainComposition ==
    IsVersion0Read =>
        /\ cfgResult.path = "chain"
        /\ cfgResult.steps = <<0, 1>>
        /\ \A current \in EquivalentCurrent(cfgInput.obj) :
              /\ migrateVersionedConfig(current).migratedConfig = cfgResult.config
              /\ ~migrateVersionedConfig(current).wasMigrated

\* C6 witness: a version-0 config naming its runtime by a legacy key was migrated
C6_Witness ==
    /\ IsVersion0Read
    /\ ~Has(cfgInput.obj, "containerRuntime")
    /\ Has(cfgInput.obj, "runtime")
    /\ cfgResult.wasMigrated
    /\ cfgResult.config["containerRuntime"] = Str(PODMAN)
    /\ cfgResult.config["schemaVersion"] = Num(CONFIG_SCHEMA_VERSION)

InputSchemaVersion ==
    IF cfgInput.kind = "object" THEN inferSchemaVersion(cfgInput.obj) ELSE 0

SameRuntime(before, after) ==
    \/ before = after
    \/ /\ before.t = "str"
       /\ after = Str(normalizeRuntimeKind(before, DOCKER))
       /\ after = Str(normalizeRuntimeKind(before, PODMAN))

Retained(k, before, after) ==
    /\ Has(after, k)
    /\ IF k = "containerRuntime" THEN SameRuntime(before[k], after[k]) ELSE after[k] = before[k]

\* C8: a file whose inferred schema version exceeds CONFIG_SCHEMA_VERSION is not
\* migrated (no step, wasMigrated = false) and loses nothing: every number or string the
\* file holds (containerRuntime, guestArch, schemaVersion, options this build does not
\* know) is retained in the returned config and in the file after the read.
C8_NewerSchemaLosesNothing ==
    (ReadDone /\ cfgResult.path = "newer") =>
        /\ ~cfgResult.wasMigrated
        /\ cfgResult.steps = <<>>
        /\ \A k \in DOMAIN cfgInput.obj \ {"versionData"} :
              cfgInput.obj[k].t \in {"num", "str"} =>
                  /\ Retained(k, cfgInput.obj, Serialize(cfgResult.config))
                  /\ Retained(k, cfgInput.obj, cfgFile.obj)

\* C9: when the migration chain throws, readConfigObject returns the parsed object
\* normalized at its inferred version, every key of the file keeping its value.
C9_FallbackKeepsCustomizations ==
    (ReadDone /\ cfgResult.path = "fallback") =>
        /\ ~cfgResult.threw
        /\ \A k \in DOMAIN cfgInput.obj : Serialize(cfgResult.config)[k] = cfgInput.obj[k]

\* the migration chain never throws, so the fallback is never taken
C9_FallbackReached == ReadDone /\ cfgResult.path = "fallback"
\* the keys of the file that are no keys of the current schema
ExtraKeys == DOMAIN cfgInput.obj \ configKeys

KeptEverywhere(k) ==
    /\ Has(cfgResult.config, k)
    /\ cfgResult.config[k] = cfgInput.obj[k]
    /\ Has(cfgFile.obj, k)
    /\ cfgFile.obj[k] = cfgInput.obj[k]

\* C26 as stated: every key of the persisted object that is not part of the current
\* schema is present with the same value in the config readConfigObject returns and in
\* the file after the read, for every starting schema version.
C26_EveryExtraKeyPreserved ==
    (ReadDone /\ cfgInput.kind = "object") => \A k \in ExtraKeys : KeptEverywhere(k)

\* C26 amended: the same, except that a file of schema version 0 loses its legacy
\* runtime keys (runtime, container, containerType), which the v0->v1 step folds into
\* containerRuntime; they are in neither the returned config nor the rewritten file.
C26_ExtraKeysPreservedButLegacy ==
    (ReadDone /\ cfgInput.kind = "object") =>
        \A k \in ExtraKeys :
            IF k \in LegacyKeySet /\ InputSchemaVersion = 0
               THEN ~Has(cfgResult.config, k) /\ ~Has(cfgFile.obj, k)
               ELSE KeptEverywhere(k)

\* C26 witness: a version-0 file with an unknown option and a legacy runtime key was
\* read and rewritten; the option was kept and the legacy key dropped
C26_Witness ==
    /\ IsVersion0Read
    /\ cfgResult.wrote
    /\ Get(cfgInput.obj, "futureOption") = Str("on")
    /\ Get(cfgInput.obj, "runtime") = Str("podman")
    /\ Get(cfgResult.config, "futureOption") = Str("on")
    /\ Get(cfgFile.obj, "futureOption") = Str("on")
    /\ ~Has(cfgFile.obj, "runtime")

\* the versions the chain has a single-step transform for (the cases of the switch)
TransformVersions == {0, 1}

\* the steps from version v up to the target, in order, each once
StepsFrom(v) == [i \in 1..(CONFIG_SCHEMA_VERSION - v) |-> v + i - 1]

ReadAtMostCurrent ==
    /\ ReadDone
    /\ cfgInput.kind = "object"
    /\ inferSchemaVersion(cfgInput.obj) <= CONFIG_SCHEMA_VERSION

\* C30: for a config whose inferred schema version is at most CONFIG_SCHEMA_VERSION,
\* migrateVersionedConfig ends without the error, has applied exactly the steps from the
\* inferred version up to the target in increasing order (0 -> 1, then 1 -> 2), each
\* once, and returns schemaVersion = CONFIG_SCHEMA_VERSION; the loop stops with the
\* error only at a version that has no transform.
C30_ChainReachesTarget ==
    ReadAtMostCurrent =>
        LET loop == MigrationLoop(cfgInput.obj, inferSchemaVersion(cfgInput.obj), <<>>)
        IN /\ cfgResult.path = "chain"
           /\ cfgResult.startedFrom = inferSchemaVersion(cfgInput.obj)
           /\ cfgResult.steps = StepsFrom(cfgResult.startedFrom)
           /\ \A i \in DOMAIN cfgResult.steps : cfgResult.steps[i] \in TransformVersions
           /\ cfgResult.config["schemaVersion"] = Num(CONFIG_SCHEMA_VERSION)
           /\ loop.threw => loop.schemaVersion \notin TransformVersions

\* a file read as version 0 (no schemaVersion, no guestArch) went through both steps
C30_Witness ==
    /\ ReadAtMostCurrent
    /\ ~Has(cfgInput.obj, "schemaVersion")
    /\ ~Has(cfgInput.obj, "guestArch")
    /\ cfgResult.steps = <<0, 1>>
    /\ cfgResult.wasMigrated
    /\ cfgResult.config["schemaVersion"] = Num(CONFIG_SCHEMA_VERSION)

\* the explicit field is a number, an integer, and not negative
ExplicitVersionValid ==
    /\ Has(cfgInput.obj, "schemaVersion")
    /\ cfgInput.obj["schemaVersion"].t = "num"
    /\ cfgInput.obj["schemaVersion"].n \in Nat

\* C31: the inferred schema version of a parsed config is its explicit schemaVersion when
\* that is a non-negative integer; otherwise (absent, not a number, negative, fractional)
\* it is 1 when the key guestArch is present and 0 when it is not.
C31_InferredSchemaVersion ==
    ReadDone /\ cfgInput.kind = "object" =>
        cfgResult.startedFrom =
            IF ExplicitVersionValid THEN cfgInput.obj["schemaVersion"].n
            ELSE IF "guestArch" \in DOMAIN cfgInput.obj THEN 1
            ELSE 0

\* a negative explicit version next to a guestArch key was read as version 1
C31_Witness ==
    /\ ReadDone
    /\ cfgInput.kind = "object"
    /\ Get(cfgInput.obj, "schemaVersion") = Num(0 - 1)
    /\ Has(cfgInput.obj, "guestArch")
    /\ cfgResult.startedFrom = 1
    /\ cfgResult.steps = <<1>>

\* ------------------------------------------------------------------------
\* Properties of the supervisor
\* ------------------------------------------------------------------------
\* C10: a control-channel connection attempt made while the supervisor's containerStatus
\* is RUNNING happens only after port() of the tick that observed that transition to
\* RUNNING has completed, whether the QMP interval was created by the polling loop or by
\* the settings toggle.
C10_ConnectOnlyAfterPortRefresh ==
    (qmpAttempt.made /\ qmpAttempt.status = "RUNNING") => qmpAttempt.refreshed

\* (C11, C13 and C14 are stated for the executions in which the ticks of the polling
\* interval never overlapped, so that they do not rest on what C12 is about.)
\* no tick of the polling interval is inside destroyAPIIntervals
TeardownDone == \A t \in TickIds : pollPc[t] \notin {"destroy", "destroyProbe"}

\* C11: once the supervisor has observed a status other than RUNNING and the tick that
\* observed it has finished destroyAPIIntervals, the control-channel session is torn
\* down: qmpMgr is null and no socket is open - also when the QMP interval had been
\* cleared, or never created, while a session existed.
C11_SessionTornDownOnLeave ==
    (containerStatus # "RUNNING" /\ TeardownDone /\ ~overlapped) =>
        /\ qmpMgr = 0
        /\ \A n \in DOMAIN sockets : sockets[n] # "open"

\* C12: at most one tick of the polling interval is in progress at any moment.
C12_PollTicksNeverOverlap ==
    Cardinality({t \in TickIds : pollPc[t] # "idle"}) <= 1

\* C13: at most one control-channel session created by the supervisor has a socket that
\* was not destroyed: when a connection is created, the socket of every earlier session
\* has been destroyed.
C13_AtMostOneLiveSession ==
    ~overlapped => Cardinality({n \in DOMAIN sockets : sockets[n] # "destroyed"}) <= 1

\* C14: once the supervisor has observed a status other than RUNNING and the tick that
\* observed it has finished, the port cache is invalidated: getActiveHostPort finds no
\* binding until port() runs again.
C14_PortCacheInvalidatedOnLeave ==
    (containerStatus # "RUNNING" /\ ~overlapped
       /\ \A t \in TickIds : pollPc[t] \in {"idle", "getStatus"}) =>
        portCache = 0

\* C15: a tick whose port query fails completes normally: it goes on to
\* createAPIIntervals with an empty port list and is not cut short.
C15_PortFailureDegrades ==
    [][\A t \in TickIds :
          pollPc[t] = "port" => (pollPc'[t] = "port" \/ (pollPc'[t] = "create" /\ portCache' \in {0, runEpoch}))]_vars

\* the supervisor holds RUNNING for a running instance, no tick is under way (and none
\* ever overlapped another), and there is no health interval
RunningWithoutIntervals ==
    /\ containerStatus = "RUNNING"
    /\ runtimeStatus = "RUNNING"
    /\ ~healthInterval
    /\ ~overlapped
    /\ \A t \in TickIds : pollPc[t] = "idle"

\* C33: while containerStatus is RUNNING and the instance stays RUNNING the health,
\* metrics and RDP-status intervals come to exist, also when port() failed on the tick
\* that first observed RUNNING: the supervisor does not rest in RUNNING with no
\* health interval.
C33_RunningGetsIntervals == ~RunningWithoutIntervals

\* no tick is about to create the intervals
NoCreateUnderWay ==
    /\ containerStatus = "RUNNING"
    /\ ~healthInterval
    /\ \A t \in TickIds : pollPc[t] \notin {"port", "create"}

\* and from there none will be, for as long as containerStatus stays RUNNING: the ticks
\* that follow find the status unchanged and do nothing
C33_StaysWithoutIntervals ==
    [][NoCreateUnderWay /\ containerStatus' = "RUNNING" => NoCreateUnderWay']_vars

\* callback i of the QMP interval starts in this step and finds experimentalFeatures off
DisabledTickStarts(i) ==
    /\ qmpPc[i].at = "off"
    /\ qmpPc'[i].at # "off"
    /\ ~experimentalFeatures'

\* C36: a tick of the QMP interval that finds experimentalFeatures false clears the
\* interval and opens no control-channel connection, so that no session is left which
\* destroyAPIIntervals would skip because the interval is already null.
C36_DisabledTickOpensNothing ==
    [][\A i \in QmpTickIds :
          DisabledTickStarts(i) => (~qmpInterval' /\ qmpPc'[i].at # "connect")]_vars

\* the half that holds: such a tick does clear the interval
C36_DisabledTickClearsInterval ==
    [][\A i \in QmpTickIds : DisabledTickStarts(i) => ~qmpInterval']_vars

\* ------------------------------------------------------------------------
\* Properties of the capability resolver (SpecCapabilities)
\* ------------------------------------------------------------------------
\* what a reason names
ReasonNames(reason) ==
    CASE reason \in {ReasonPodmanLinuxOnly, ReasonNeedsAppleSilicon} -> "platform"
      [] reason = ReasonHiddenBehindFlag -> "flag"
      [] OTHER -> "nothing"

\* the tokens that are 1, true or yes whatever their case, and the ones that are
\* not even when the surrounding blanks are dropped
EnabledTokens == {"1", "TRUE", "Yes"}
DisabledTokens == {Unset, "0", "on"}
OnAppleSilicon == hostPlatform = "darwin" /\ hostArch = "arm64"
EitherFlagEnabled == envCanonical \in EnabledTokens \/ envLegacy \in EnabledTokens
BothFlagsDisabled == envCanonical \in DisabledTokens /\ envLegacy \in DisabledTokens

\* the host a runtime kind is restricted to
OnRequiredPlatform(runtime) ==
    CASE runtime = PODMAN -> hostPlatform = "linux"
      [] runtime = QEMU_NATIVE -> OnAppleSilicon
      [] OTHER -> TRUE

\* C19: whenever getRuntimeCapabilities(...).supportedOnHost is false,
\* unsupportedReason is populated, and it names the platform mismatch when
\* the host is not the one the runtime needs and the missing opt-in flag
\* otherwise.
C19_UnsupportedHasReason ==
    (capResult.asked /\ ~capResult.supportedOnHost) =>
        /\ capResult.unsupportedReason # NoReason
        /\ ReasonNames(capResult.unsupportedReason) =
               (IF OnRequiredPlatform(capResult.runtime) THEN "flag" ELSE "platform")

\* C20: with either flag enabled on macOS Apple Silicon, QEMU Native is one
\* of the supported runtime kinds and its capabilities say supportedOnHost;
\* with both flags disabled, or on any other host, it is not one of the
\* supported runtime kinds.
C20_FlagExposesNativeRuntime ==
    /\ (kindsResult.asked /\ OnAppleSilicon /\ EitherFlagEnabled) =>
           Includes(kindsResult.kinds, QEMU_NATIVE)
    /\ (capResult.asked /\ capResult.runtime = QEMU_NATIVE /\ OnAppleSilicon /\ EitherFlagEnabled) =>
           capResult.supportedOnHost
    /\ (kindsResult.asked /\ (BothFlagsDisabled \/ ~OnAppleSilicon)) =>
           ~Includes(kindsResult.kinds, QEMU_NATIVE)

\* ------------------------------------------------------------------------
\* Properties of the port bindings (SpecPorts)
\* ------------------------------------------------------------------------
\* the bindings the backend reported for a container port and protocol
ReportedFor(port, protocol) ==
    {n \in DOMAIN portSource :
        /\ portSource[n].container = port
        /\ (IF portSource[n].proto = "" THEN "tcp" ELSE portSource[n].proto) = protocol}

\* C21: once port() has cached the reported bindings, getActiveHostPort
\* returns the concrete host port of the reported binding for the container
\* port and protocol (47293 for 47293:7149), undefined when nothing is
\* cached or nothing matches, and never a Range or NaN.
C21_ActiveHostPortIsConcrete ==
    portQuery.asked =>
        /\ portQuery.result.kind \in {"number", "undefined"}
        /\ ~portQuery.cached => portQuery.result = HostUndefined
        /\ (portQuery.cached /\ ReportedFor(portQuery.port, portQuery.protocol) = {}) =>
               portQuery.result = HostUndefined

\* ------------------------------------------------------------------------
\* Properties of the control-channel handshake (SpecHandshake)
\* ------------------------------------------------------------------------
\* C22: on every connection the first command sent is qmp_capabilities, and
\* every other command on it is sent after qmp_capabilities has returned a
\* confirmation.
C22_NegotiationFirst ==
    \A conn \in DOMAIN hsLog :
        \A n \in DOMAIN hsLog[conn] :
            IF n = 1 THEN hsLog[conn][n].cmd = "qmp_capabilities"
            ELSE hsLog[conn][n].confirmed

\* ------------------------------------------------------------------------
\* Properties of the configuration owner (SpecOwner)
\* ------------------------------------------------------------------------
\* C23: after every mutation made through WinboatConfig.config, top-level
\* or nested, the config file holds the in-memory config.
C23_DiskFollowsEveryMutation ==
    lastMutation # "none" => configOnDisk = configData

\* ------------------------------------------------------------------------
\* Properties of the descriptor file (SpecDescriptor)
\* ------------------------------------------------------------------------
\* C24: after a crash at any point of a descriptor write (writeCompose, or
\* the backup-then-write of replaceCompose), the descriptor path holds the
\* complete previous descriptor or the complete new one.
C24_CrashLeavesWholeDescriptor ==
    descPc \in {"crashed_renamed", "crashed_opened"} =>
        \/ descFile = descOp.prev /\ descFile.kind = "complete"
        \/ descFile = CompleteDescriptor(descOp.new)

\* ------------------------------------------------------------------------
\* Properties of the guest server update (SpecGuestUpdate)
\* ------------------------------------------------------------------------
\* C25: no operation blocks indefinitely: checkVersionAndUpdateGuestServer,
\* once called, returns or throws with isUpdatingGuestServer false, whatever
\* the guest does.
C25_GuestUpdateFinishes ==
    (guPc # "idle") ~> (guPc \in {"returned", "threw"} /\ ~isUpdatingGuestServer)

\* ------------------------------------------------------------------------
\* Properties of the startup
\* ------------------------------------------------------------------------
StartupDone == startPc = "ready"

\* C27: once the WinboatConfig and the Winboat are constructed, config.containerRuntime
\* is one of the runtimes supported on the host, the config file holds that same
\* runtime, and the manager in use was created for it, whatever the file held before.
C27_StartupRuntimeSupported ==
    StartupDone =>
        /\ Includes(getSupportedRuntimeKinds, wbConfigData["containerRuntime"].s)
        /\ cfgFile.kind = "object"
        /\ Get(cfgFile.obj, "containerRuntime") = wbConfigData["containerRuntime"]
        /\ containerMgr = wbConfigData["containerRuntime"].s

\* a file configured for Podman (after trimming) started on macOS: the fallback acted
C27_Witness ==
    /\ StartupDone
    /\ hostPlatform = "darwin"
    /\ cfgInput.kind = "object"
    /\ Get(cfgInput.obj, "containerRuntime") = Str(" PODMAN ")
    /\ cfgResult.config["containerRuntime"] = Str(PODMAN)
    /\ containerMgr = DOCKER

\* the Winboat constructor replaced the configured runtime by a fallback runtime
FallbackActed ==
    /\ StartupDone
    /\ cfgResult.config["containerRuntime"] # wbConfigData["containerRuntime"]

\* C38: after startup, config.guestArch is getPreferredGuestArchitecture of
\* config.containerRuntime, also when the Winboat constructor replaced an unsupported
\* configured runtime by a fallback runtime.
C38_GuestArchMatchesRuntime ==
    StartupDone =>
        wbConfigData["guestArch"] =
            Str(getPreferredGuestArchitecture(wbConfigData["containerRuntime"].s))

\* what holds: the architecture matches the runtime between the two constructors, and
\* after both when no fallback acted
C38_GuestArchMatchesConfiguredRuntime ==
    (startPc = "config" \/ (StartupDone /\ ~FallbackActed)) =>
        wbConfigData["guestArch"] =
            Str(getPreferredGuestArchitecture(wbConfigData["containerRuntime"].s))


\* ------------------------------------------------------------------------
\* Properties of the native status
\* ------------------------------------------------------------------------
PidFileHoldsLivePid == pidFile.exists /\ pidFile.content > 0 /\ pidFile.content \in alive

\* C28: the native getStatus returns RUNNING exactly when the PID file exists, holds a
\* positive integer and the process with that PID is alive, and EXITED in every other
\* case; it returns no other status, also for a process stopped by a pause.
C28_NativeStatusFollowsPid ==
    statusOp = "getStatus" =>
        /\ statusSeen \in {"RUNNING", "EXITED"}
        /\ statusSeen = "RUNNING" <=> PidFileHoldsLivePid

\* getStatus on a process that a pause has stopped answers RUNNING
C28_Witness ==
    /\ statusOp = "getStatus"
    /\ PidFileHoldsLivePid
    /\ pidFile.content \in stopped
    /\ statusSeen = "RUNNING"

\* ------------------------------------------------------------------------
\* Properties of the capability resolver as a function
\* ------------------------------------------------------------------------
SameArguments ==
    /\ resolveFirst.asked
    /\ resolveSecond.asked
    /\ resolveFirst.runtime = resolveSecond.runtime
    /\ resolveFirst.hostProfile = resolveSecond.hostProfile

\* C29: getRuntimeCapabilities is a function of its arguments only: two calls with the
\* same runtime kind and host profile return equal capabilities, whatever
\* process.platform and the environment variables are when each call is made.
C29_ResultDependsOnArgumentsOnly ==
    SameArguments => resolveFirst.result = resolveSecond.result

\* the same two calls made under the same platform and environment do agree
C29_SameProcessSameResult ==
    SameArguments /\ resolveFirst.result # resolveSecond.result =>
        \/ resolveFirst.result.supportedOnHost # resolveSecond.result.supportedOnHost
        \/ resolveFirst.result.unsupportedReason # resolveSecond.result.unsupportedReason

\* ------------------------------------------------------------------------
\* Properties of the hypervisor's forwarding rules and control channel
\* ------------------------------------------------------------------------
Members(seq) == {seq[n] : n \in DOMAIN seq}

StartedAndReported == hostFwd.started /\ cachedPortMappings.set

\* C32: for the native backend the bindings port() returns are exactly the forwarding
\* rules the hypervisor was started with from the same descriptor: every reported
\* binding has a hostfwd rule with the same host port, container port and protocol, and
\* every hostfwd rule is reported.
C32_PortsAreForwardingRules ==
    StartedAndReported => Members(cachedPortMappings.entries) = Members(hostFwd.rules)

\* the half that holds: every hostfwd rule is among the reported bindings
C32_EveryRuleIsReported ==
    StartedAndReported => Members(hostFwd.rules) \subseteq Members(cachedPortMappings.entries)

QmpPortResolved ==
    /\ hostFwd.started
    /\ portQuery.asked
    /\ portQuery.cached
    /\ portQuery.port = CommonPortsQMP
    /\ portQuery.protocol = "tcp"

\* C37: for the native backend the host port the started hypervisor's control channel
\* listens on is the host port getActiveHostPort resolves for the control port 7149
\* from the bindings of port(), for every descriptor.
\* (Stated for the descriptors that bind the control port to a host port at all.)
C37_ControlChannelPortMatches ==
    QmpPortResolved /\ portQuery.result.kind = "number" =>
        portQuery.result = HostNumber(qmpListen)

\* what the resolution gives instead: a host port of the descriptor's table or nothing
C37_ResolvedFromDescriptor ==
    QmpPortResolved =>
        \/ portQuery.result = HostUndefined
        \/ \E n \in DOMAIN portSource :
              /\ portSource[n].container = CommonPortsQMP
              /\ portQuery.result \in {ParseHostPart(portSource[n].host),
                                       HostNumber(ParseInt(portSource[n].host))}

\* ------------------------------------------------------------------------
\* Properties of the container actions
\* ------------------------------------------------------------------------
\* C34: when startContainer, stopContainer, restartContainer, pauseContainer,
\* unpauseContainer or replaceCompose has finished, by returning or by throwing,
\* containerActionLoading is false.
C34_LoadingClearedWhenFinished ==
    actionPc \in {"returned", "threw"} => ~containerActionLoading

\* the half that holds: after a return the flag is false
C34_LoadingClearedOnReturn ==
    actionPc = "returned" => ~containerActionLoading

\* ------------------------------------------------------------------------
\* Properties of the guest API intervals
\* ------------------------------------------------------------------------
\* C35: once a status other than RUNNING was observed and destroyAPIIntervals has run,
\* isOnline and rdpConnected are false and stay false until the next transition to
\* RUNNING, also when a health or RDP-status request sent before the teardown completes
\* after it.
C35_OfflineAfterTeardown ==
    tornDown => ~isOnline /\ ~rdpConnected

\* with no request of an earlier callback left, the flags are false after the teardown
C35_OfflineOnceRequestsAreDone ==
    [][tornDown' /\ ~tornDown => (~isOnline' /\ ~rdpConnected')]_vars

\* ------------------------------------------------------------------------
\* Properties of exists() after remove()
\* ------------------------------------------------------------------------
\* C39: for every backend, after remove() has completed successfully on an existing
\* stopped instance, exists() returns false.
C39_RemovedInstanceDoesNotExist ==
    existsSeen.asked /\ existsSeen.afterRemove => ~existsSeen.value

\* the half that holds: the engine backends
C39_RemovedContainerDoesNotExist ==
    existsSeen.asked /\ existsSeen.afterRemove /\ existsSeen.backend # QEMU_NATIVE =>
        ~existsSeen.value

\* ------------------------------------------------------------------------
\* Properties of the installation
\* ------------------------------------------------------------------------
EndStates == {"COMPLETED", "INSTALL_ERROR"}

\* the emitted states that are steps of the installation, in the order emitted
RECURSIVE StepsOf(_)
StepsOf(events) ==
    IF events = <<>> THEN <<>>
    ELSE IF Head(events) \in EndStates THEN StepsOf(Tail(events))
    ELSE <<Head(events)>> \o StepsOf(Tail(events))

EmittedTimes(state) == Cardinality({n \in DOMAIN instEvents : instEvents[n] = state})

\* the steps are entered in the order of install(), none left out
InstallStepsInOrder ==
    /\ Len(StepsOf(instEvents)) <= Len(InstallSteps)
    /\ \A n \in DOMAIN StepsOf(instEvents) : StepsOf(instEvents)[n] = InstallSteps[n]

\* COMPLETED is emitted only after /health answered 200
CompletedOnlyAfterHealth ==
    EmittedTimes("COMPLETED") > 0 => instHealthy

\* install() has ended in COMPLETED or INSTALL_ERROR, and not in both
InstallEndsInOneState ==
    instPc = "done" =>
        /\ instState \in EndStates
        /\ ~(EmittedTimes("COMPLETED") > 0 /\ EmittedTimes("INSTALL_ERROR") > 0)

\* C40: install() enters CREATING_COMPOSE_FILE, CREATING_OEM, STARTING_CONTAINER,
\* MONITORING_PREINSTALL, INSTALLING_WINDOWS in that order, emits stateChanged for each
\* state at most once per run, reaches COMPLETED only after /health answered 200, and
\* ends in exactly one of COMPLETED or INSTALL_ERROR with no state change after it.
C40_InstallStateSequence ==
    /\ InstallStepsInOrder
    /\ \A n \in DOMAIN instEvents : EmittedTimes(instEvents[n]) = 1
    /\ CompletedOnlyAfterHealth
    /\ InstallEndsInOneState

\* what holds of the sequence: everything but the single emission of COMPLETED
C40_InstallStateSequenceButRepeats ==
    /\ InstallStepsInOrder
    /\ \A n \in DOMAIN instEvents :
          instEvents[n] # "COMPLETED" => EmittedTimes(instEvents[n]) = 1
    /\ CompletedOnlyAfterHealth
    /\ InstallEndsInOneState

====
